---------------------------- MODULE Spec2Model ----------------------------
(***************************************************************************)
(* A model of the ruzer driver (crates/driver): the 90-byte Razer report   *)
(* and its builder (common.rs), the per-operation request encoders and     *)
(* response decoders (common.rs, devices.rs), the capability-polymorphic   *)
(* FeatureSet of a claimed device (devices.rs, driver_macros/lib.rs) and   *)
(* the batched get/set orchestration (batched.rs), and the commands the    *)
(* device page spawns on a device (crates/ruzer, device_page.rs), and the  *)
(* message handlers of the GUI components (crates/ruzer).                  *)
(*                                                                         *)
(* Nine specifications share the definitions:                              *)
(*   SpecCodec    the DPI encoders/decoders applied to drawn inputs;       *)
(*   SpecMessage  every builder, the polling-rate decoder, the response    *)
(*                parser and the colour conversions applied to drawn       *)
(*                inputs;                                                  *)
(*   Spec         a claimed device driven through single FeatureSet        *)
(*                operations, over a transport that may fail, against a    *)
(*                device that stores what it is sent;                      *)
(*   SpecClaim    RazerDevice::claim on a drawn product id, then the       *)
(*                same operations on the handle it returned;               *)
(*   SpecBatched  the same device and transport driven through             *)
(*                get_batched and set_batched;                             *)
(*   SpecGui      the Refresh and Apply commands of the device page        *)
(*                running side by side on one device;                      *)
(*   SpecPage     the message handlers of the device page, with the        *)
(*                commands reduced to the snapshot they report;            *)
(*   SpecStages   the DPI stage list of the device page;                   *)
(*   SpecApp      the App component and its device list.                   *)
(* Bytes are integers 0..255, u16 values integers 0..65535.  Argument and  *)
(* report buffers are functions indexed from 0, as in the source.          *)
(***************************************************************************)
EXTENDS Integers, Sequences, FiniteSets, TLC

(***************************************************************************)
(* Program constants (common.rs).                                          *)
(***************************************************************************)
RAZER_REPORT_ARGUMENT_SIZE == 80
RAZER_REPORT_SIZE == 90
RAZER_MOUSE_MAX_DPI_STAGES == 5
RAZER_USB_VENDOR_ID == 5426
VarStoreId_NoStore == 0
VarStoreId_VarStore == 1
LedId_Logo == 4
DPI_MIN == 100
DPI_MAX == 35000

U8 == 256
U16 == 65536

\* The transaction id every operation of the registered device uses (0x3f).
TRANSACTION_ID == 63
TRANSACTION_ID_0x1f == 31

(***************************************************************************)
(* Option and Result values.  None is the empty sequence and Some(v) the   *)
(* one-element sequence, so that values of any shape can be held.          *)
(***************************************************************************)
None == << >>
Some(v) == << v >>
IsSome(o) == Len(o) = 1
Unwrap(o) == o[1]

Ok(v) == [ok |-> TRUE, val |-> v]
Err(e) == [ok |-> FALSE, err |-> e]

\* The value of type ()
Unit == "unit"

\* Result::ok(): Ok(v) -> Some(v), Err(_) -> None
ResultOk(r) == IF r.ok THEN Some(r.val) ELSE None

(***************************************************************************)
(* Integer helpers of common.rs.                                           *)
(***************************************************************************)
Min2(a, b) == IF a <= b THEN a ELSE b
Max2(a, b) == IF a >= b THEN a ELSE b

\* min(max(min_range, val), max_range)
clamp(val, min_range, max_range) == Min2(Max2(min_range, val), max_range)

\* Big endian: [((val >> 8) & 0xFF) as u8, (val & 0xFF) as u8]
encode_u16_as_bytes(val) == << (val \div 256) % 256, val % 256 >>

\* Big endian: ((val[0] as u16) << 8) | ((val[1] as u16) & 0xFF)
decode_u16_from_bytes(hi, lo) == ((hi * 256) % U16) + (lo % 256)

RECURSIVE BitXor(_, _)
\* a ^ b on non-negative integers
BitXor(a, b) ==
    IF a = 0 THEN b
    ELSE IF b = 0 THEN a
    ELSE ((a + b) % 2) + 2 * BitXor(a \div 2, b \div 2)

(***************************************************************************)
(* RazerMessageBuilder and RazerMessage (common.rs).                       *)
(***************************************************************************)
ZeroArguments == [i \in 0 .. (RAZER_REPORT_ARGUMENT_SIZE - 1) |-> 0]

\* impl Default for RazerMessageBuilder
RazerMessageBuilder_default ==
    [transaction_id |-> 0, data_size |-> 0, command_class |-> 0,
     command_id |-> 0, arguments |-> ZeroArguments]

with_transaction_id(b, transaction_id) ==
    [b EXCEPT !.transaction_id = transaction_id]

\* The #[repr(C)] layout of RazerMessage as zerocopy's as_bytes() gives it.
\* remaining_packets is a native-endian u16 at offsets 2..3.
as_bytes(m) ==
    [i \in 0 .. (RAZER_REPORT_SIZE - 1) |->
        CASE i = 0 -> m.status
          [] i = 1 -> m.transaction_id
          [] i = 2 -> m.remaining_packets % 256
          [] i = 3 -> m.remaining_packets \div 256
          [] i = 4 -> m.protocol_type
          [] i = 5 -> m.data_size
          [] i = 6 -> m.command_class
          [] i = 7 -> m.command_id
          [] i = 88 -> m.crc
          [] i = 89 -> m.reserved
          [] OTHER -> m.arguments[i - 8]]

\* The record whose #[repr(C)] layout is the first 90 bytes of data.
from_bytes(data) ==
    [status |-> data[0],
     transaction_id |-> data[1],
     remaining_packets |-> data[2] + 256 * data[3],
     protocol_type |-> data[4],
     data_size |-> data[5],
     command_class |-> data[6],
     command_id |-> data[7],
     arguments |-> [i \in 0 .. (RAZER_REPORT_ARGUMENT_SIZE - 1) |-> data[i + 8]],
     crc |-> data[88],
     reserved |-> data[89]]

\* Variant: a slice longer than the record is read by its first 90 bytes.
read_from_bytes_prefix(data) ==
    IF ~((0 .. (RAZER_REPORT_SIZE - 1)) \subseteq DOMAIN data)
    THEN Err("Invalid size of byte response")
    ELSE Ok(from_bytes(data))

\* Variant: the record goes out with status 1 and without a checksum.
build_status_busy(b) ==
    [status |-> 1,
     transaction_id |-> b.transaction_id,
     remaining_packets |-> 0,
     protocol_type |-> 0,
     data_size |-> b.data_size,
     command_class |-> b.command_class,
     command_id |-> b.command_id,
     arguments |-> b.arguments,
     crc |-> 0,
     reserved |-> 0]

\* RazerMessage::read_from_bytes: fails unless the slice is exactly 90 bytes.
\* data is a function over 0 .. n-1.
read_from_bytes(data) ==
    IF DOMAIN data # 0 .. (RAZER_REPORT_SIZE - 1)
    THEN Err("Invalid size of byte response")
    ELSE Ok([status |-> data[0],
             transaction_id |-> data[1],
             remaining_packets |-> data[2] + 256 * data[3],
             protocol_type |-> data[4],
             data_size |-> data[5],
             command_class |-> data[6],
             command_id |-> data[7],
             arguments |-> [i \in 0 .. (RAZER_REPORT_ARGUMENT_SIZE - 1) |-> data[i + 8]],
             crc |-> data[88],
             reserved |-> data[89]])

RECURSIVE XorRange(_, _, _)
\* crc ^= byte for the bytes at offsets from .. to (inclusive); XOR is
\* associative, so the fold is evaluated by halves.
XorRange(bytes, from, to) ==
    IF from > to THEN 0
    ELSE IF from = to THEN bytes[from]
    ELSE LET mid == (from + to) \div 2
         IN  BitXor(XorRange(bytes, from, mid), XorRange(bytes, mid + 1, to))

\* Variant: the range the comment names, "all the report except crc and
\* reserved bytes", which also covers status and transaction id.
calculate_crc_from_start(report) ==
    XorRange(as_bytes(report), 0, RAZER_REPORT_SIZE - 3)

\* report.iter().take(RAZER_REPORT_SIZE - 2).skip(2)
calculate_crc(report) ==
    XorRange(as_bytes(report), 2, RAZER_REPORT_SIZE - 3)

WithCrc(m) == [m EXCEPT !.crc = calculate_crc(m)]

build(b) ==
    WithCrc([status |-> 0,
             transaction_id |-> b.transaction_id,
             remaining_packets |-> 0,
             protocol_type |-> 0,
             data_size |-> b.data_size,
             command_class |-> b.command_class,
             command_id |-> b.command_id,
             arguments |-> b.arguments,
             crc |-> 0,
             reserved |-> 0])

Request(data_size, command_class, command_id) ==
    [RazerMessageBuilder_default EXCEPT !.data_size = data_size,
                                        !.command_class = command_class,
                                        !.command_id = command_id]

RazerMessageBuilder_get_dpi(var_store) ==
    [Request(7, 4, 133) EXCEPT !.arguments[0] = var_store]

\* Variant: the DPI is encoded as given, without clamping.
RazerMessageBuilder_set_dpi_unclamped(var_store, dpi) ==
    [Request(7, 4, 5) EXCEPT
        !.arguments[0] = var_store,
        !.arguments[1] = (dpi.x \div 256) % 256,
        !.arguments[2] = dpi.x % 256,
        !.arguments[3] = (dpi.y \div 256) % 256,
        !.arguments[4] = dpi.y % 256]

RazerMessageBuilder_set_dpi(var_store, dpi) ==
    LET dpi_x == clamp(dpi.x, DPI_MIN, DPI_MAX)
        dpi_y == clamp(dpi.y, DPI_MIN, DPI_MAX)
    IN  [Request(7, 4, 5) EXCEPT
            !.arguments[0] = var_store,
            !.arguments[1] = (dpi_x \div 256) % 256,
            !.arguments[2] = dpi_x % 256,
            !.arguments[3] = (dpi_y \div 256) % 256,
            !.arguments[4] = dpi_y % 256,
            !.arguments[5] = 0,
            !.arguments[6] = 0]

RazerMessageBuilder_get_dpi_stages(var_store) ==
    [Request(38, 4, 134) EXCEPT !.arguments[0] = var_store]

\* The number of whole 7-byte chunks of arguments[3..]: chunks_exact(0x07)
NumChunks == (RAZER_REPORT_ARGUMENT_SIZE - 3) \div 7

\* The byte set_dpi_stages writes at argument offset i (i >= 3) when that
\* offset lies in the chunk of one of the first num_stages stages.
StageChunkByte(stages, i) ==
    LET k == (i - 3) \div 7      \* enumerate() index of the chunk
        j == (i - 3) % 7         \* offset in the chunk
        s == stages[k + 1]
    IN  CASE j = 0 -> k % U8
          [] j = 1 -> encode_u16_as_bytes(s[1])[1]
          [] j = 2 -> encode_u16_as_bytes(s[1])[2]
          [] j = 3 -> encode_u16_as_bytes(s[2])[1]
          [] j = 4 -> encode_u16_as_bytes(s[2])[2]
          [] OTHER -> 0

\* Variant: each stage's DPI is clamped into [100, 35000] as set_dpi does.
RazerMessageBuilder_set_dpi_stages_clamped(var_store, dpi_stages) ==
    LET clamped == [k \in 1 .. Len(dpi_stages.stages) |->
                      << clamp(dpi_stages.stages[k][1], DPI_MIN, DPI_MAX),
                         clamp(dpi_stages.stages[k][2], DPI_MIN, DPI_MAX) >>]
        taken == Min2(Len(clamped), NumChunks)
    IN  [Request(38, 4, 6) EXCEPT
            !.arguments = [i \in 0 .. (RAZER_REPORT_ARGUMENT_SIZE - 1) |->
                CASE i = 0 -> var_store
                  [] i = 1 -> dpi_stages.active
                  [] i = 2 -> Len(clamped) % U8
                  [] i >= 3 /\ i < 3 + 7 * taken -> StageChunkByte(clamped, i)
                  [] OTHER -> 0]]

RazerMessageBuilder_set_dpi_stages(var_store, dpi_stages) ==
    LET num_stages == Len(dpi_stages.stages)
        taken == Min2(num_stages, NumChunks)   \* chunks_exact(7).take(num_stages)
    IN  [Request(38, 4, 6) EXCEPT
            !.arguments = [i \in 0 .. (RAZER_REPORT_ARGUMENT_SIZE - 1) |->
                CASE i = 0 -> var_store
                  [] i = 1 -> dpi_stages.active
                  [] i = 2 -> num_stages % U8
                  [] i >= 3 /\ i < 3 + 7 * taken ->
                        StageChunkByte(dpi_stages.stages, i)
                  [] OTHER -> 0]]

(***************************************************************************)
(* DpiStages (common.rs).                                                  *)
(***************************************************************************)
\* Variant: the upper bound on the active stage is off by one.
DpiStages_new_off_by_one(active, stages) ==
    IF Len(stages) = 0 \/ Len(stages) > RAZER_MOUSE_MAX_DPI_STAGES
    THEN Err("DpiStages: Need 1 <= # of DPI stages <= 256")
    ELSE IF active < 1 \/ active > (Len(stages) + 1) % U8
    THEN Err("DpiStages: Need 1 <= active stage <= # of stages")
    ELSE Ok([active |-> active, stages |-> stages])

DpiStages_new(active, stages) ==
    IF Len(stages) = 0 \/ Len(stages) > RAZER_MOUSE_MAX_DPI_STAGES
    THEN Err("DpiStages: Need 1 <= # of DPI stages <= 256")
    ELSE IF active < 1 \/ active > Len(stages) % U8
    THEN Err("DpiStages: Need 1 <= active stage <= # of stages")
    ELSE Ok([active |-> active, stages |-> stages])

(***************************************************************************)
(* Response decoders (the part of each get_* of devices.rs that follows    *)
(* the round trip).  arguments is the response's 80-byte argument buffer.  *)
(***************************************************************************)
get_dpi_decode(arguments) ==
    [x |-> decode_u16_from_bytes(arguments[1], arguments[2]),
     y |-> decode_u16_from_bytes(arguments[3], arguments[4])]

\* The table is built as a struct literal: DpiStages::new is not called.
get_dpi_stages_decode(arguments) ==
    LET active_stage == arguments[1]
        num_stages == arguments[2]
        taken == Min2(num_stages, NumChunks)
    IN  [active |-> active_stage,
         stages |-> [k \in 1 .. taken |->
                       << decode_u16_from_bytes(arguments[3 + 7 * (k - 1) + 1],
                                                arguments[3 + 7 * (k - 1) + 2]),
                          decode_u16_from_bytes(arguments[3 + 7 * (k - 1) + 3],
                                                arguments[3 + 7 * (k - 1) + 4]) >>]]


(***************************************************************************)
(* The remaining request builders (common.rs) and decoders (devices.rs).   *)
(***************************************************************************)
RazerMessageBuilder_get_battery_level == Request(2, 7, 128)

\* Variant: the charging status is asked for with the battery level's id.
RazerMessageBuilder_get_charging_status_id_0x80 == Request(2, 7, 128)

RazerMessageBuilder_get_charging_status == Request(2, 7, 132)

RazerMessageBuilder_get_polling_rate == Request(1, 0, 133)

\* NormalPollingRate is modelled by its rate in Hz.
NormalPollingRates == {1000, 500, 125}
ExtendedPollingRates == {8000, 4000, 2000, 1000, 500, 250, 125}
Normal(r) == [kind |-> "Normal", rate |-> r]
Extended(r) == [kind |-> "Extended", rate |-> r]

RazerMessageBuilder_set_polling_rate(polling_rate) ==
    [Request(1, 0, 5) EXCEPT
        !.arguments[0] = CASE polling_rate = 1000 -> 1
                           [] polling_rate = 500 -> 2
                           [] polling_rate = 125 -> 8]

RazerMessageBuilder_set_polling_rate_extended(polling_rate) ==
    [Request(2, 0, 64) EXCEPT
        !.arguments[0] = 0,
        !.arguments[1] = CASE polling_rate = 8000 -> 1
                           [] polling_rate = 4000 -> 2
                           [] polling_rate = 2000 -> 4
                           [] polling_rate = 1000 -> 8
                           [] polling_rate = 500 -> 16
                           [] polling_rate = 250 -> 32
                           [] polling_rate = 125 -> 64]

(***************************************************************************)
(* Lighting effects (chroma.rs) and their encoder.                         *)
(***************************************************************************)
Color(r, g, b) == [r |-> r, g |-> g, b |-> b]

\* Colour text is modelled by its UTF-8 bytes, a sequence of integers.
\* What a computation that panicked leaves instead of a Result.
Panic(message) == [panic |-> message]
Panicked(r) == "panic" \in DOMAIN r

\* str::is_char_boundary: index (from 0) is the length, or the byte there is
\* not a continuation byte.
is_char_boundary(s, index) ==
    \/ index = Len(s)
    \/ index < Len(s) /\ ~(128 <= s[index + 1] /\ s[index + 1] <= 191)

\* char::to_digit(16) of an ASCII byte; -1 when it is not a digit.
to_digit_16(byte) ==
    IF 48 <= byte /\ byte <= 57 THEN byte - 48
    ELSE IF 97 <= byte /\ byte <= 102 THEN byte - 87
    ELSE IF 65 <= byte /\ byte <= 70 THEN byte - 55
    ELSE -1

\* u8::from_str_radix(src, 16): empty text, a lone sign, a non-digit and a
\* value above 255 are errors; one leading '+' is accepted.
u8_from_str_radix_16(src) ==
    IF Len(src) = 0 THEN Err("Empty")
    ELSE IF Len(src) = 1 /\ src[1] \in {43, 45} THEN Err("InvalidDigit")
    ELSE LET digits == IF src[1] = 43 THEN SubSeq(src, 2, Len(src)) ELSE src
             value[n \in 0 .. Len(digits)] ==
                 IF n = 0 THEN 0 ELSE value[n - 1] * 16 + to_digit_16(digits[n])
         IN  IF \E n \in 1 .. Len(digits) : to_digit_16(digits[n]) < 0
             THEN Err("InvalidDigit")
             ELSE IF value[Len(digits)] > 255 THEN Err("PosOverflow")
             ELSE Ok(value[Len(digits)])

\* &hex_code[from..to] panics unless from <= to <= len and both are char
\* boundaries.
SliceInBounds(s, from, to) ==
    /\ from <= to
    /\ to <= Len(s)
    /\ is_char_boundary(s, from)
    /\ is_char_boundary(s, to)

\* impl FromStr for Color: the three slices are taken and parsed in turn,
\* each error mapped to () and returned by `?`.
Color_from_str(hex_code) ==
    IF ~SliceInBounds(hex_code, 1, 3) THEN Panic("byte index out of range")
    ELSE LET r == u8_from_str_radix_16(SubSeq(hex_code, 2, 3))
         IN  IF ~r.ok THEN Err(Unit)
             ELSE IF ~SliceInBounds(hex_code, 3, 5) THEN Panic("byte index out of range")
             ELSE LET g == u8_from_str_radix_16(SubSeq(hex_code, 4, 5))
                  IN  IF ~g.ok THEN Err(Unit)
                      ELSE IF ~SliceInBounds(hex_code, 5, 7)
                      THEN Panic("byte index out of range")
                      ELSE LET b == u8_from_str_radix_16(SubSeq(hex_code, 6, 7))
                           IN  IF ~b.ok THEN Err(Unit)
                               ELSE Ok(Color(r.val, g.val, b.val))

\* impl From<(u8, u8, u8)> for Color: r, g and b are all taken from value.0.
\* value is the tuple as a sequence, value.0 being value[1].
Color_from(value) == [r |-> value[1], g |-> value[1], b |-> value[1]]

BreathingEffect_Single(color) == [kind |-> "Single", color |-> color]
BreathingEffect_Dual(color, color1) ==
    [kind |-> "Dual", color |-> color, color1 |-> color1]
BreathingEffect_Random == [kind |-> "Random"]

ExtendedMatrixEffect_None == [kind |-> "None"]
ExtendedMatrixEffect_Static(color) == [kind |-> "Static", color |-> color]
ExtendedMatrixEffect_Breathing(effect) == [kind |-> "Breathing", effect |-> effect]
ExtendedMatrixEffect_Spectrum == [kind |-> "Spectrum"]
ExtendedMatrixEffect_Reactive(color, speed) ==
    [kind |-> "Reactive", color |-> color, speed |-> speed]

\* impl From<ExtendedMatrixEffect> for u8
ExtendedMatrixEffect_into_u8(value) ==
    CASE value.kind = "None" -> 0
      [] value.kind = "Static" -> 1
      [] value.kind = "Breathing" -> 2
      [] value.kind = "Spectrum" -> 3
      [] value.kind = "Reactive" -> 5

\* arguments[from ..= from + len - 1].copy_from_slice(&payload)
copy_from_slice(arguments, from, payload) ==
    [i \in DOMAIN arguments |->
        IF from <= i /\ i < from + Len(payload)
        THEN payload[i - from + 1]
        ELSE arguments[i]]

\* Variant: the speed of Reactive is sent as supplied.
RazerMessageBuilder_chroma_extended_matrix_effect_unclamped(var_store, led_id, effect) ==
    LET msg == [Request(0, 15, 2) EXCEPT
                    !.arguments[0] = var_store,
                    !.arguments[1] = led_id,
                    !.arguments[2] = ExtendedMatrixEffect_into_u8(effect)]
    IN  IF effect.kind = "Reactive"
        THEN [msg EXCEPT
                !.arguments = copy_from_slice(msg.arguments, 4,
                    << effect.speed, 1, effect.color.r, effect.color.g,
                       effect.color.b >>),
                !.data_size = 9]
        ELSE [msg EXCEPT !.data_size = 6]

RazerMessageBuilder_chroma_extended_matrix_effect(var_store, led_id, effect) ==
    LET msg == [Request(0, 15, 2) EXCEPT
                    !.arguments[0] = var_store,
                    !.arguments[1] = led_id,
                    !.arguments[2] = ExtendedMatrixEffect_into_u8(effect)]
    IN  CASE effect.kind \in {"None", "Spectrum"} ->
                [msg EXCEPT !.data_size = 6]
          [] effect.kind = "Static" ->
                [msg EXCEPT
                    !.arguments = copy_from_slice(msg.arguments, 5,
                        << 1, effect.color.r, effect.color.g, effect.color.b >>),
                    !.data_size = 9]
          [] effect.kind = "Breathing" /\ effect.effect.kind = "Single" ->
                [msg EXCEPT
                    !.arguments = copy_from_slice(msg.arguments, 3,
                        << 1, 0, 1, effect.effect.color.r, effect.effect.color.g,
                           effect.effect.color.b >>),
                    !.data_size = 9]
          [] effect.kind = "Breathing" /\ effect.effect.kind = "Dual" ->
                [msg EXCEPT
                    !.arguments = copy_from_slice(msg.arguments, 3,
                        << 2, 0, 2, effect.effect.color.r, effect.effect.color.g,
                           effect.effect.color.b, effect.effect.color1.r,
                           effect.effect.color1.g, effect.effect.color1.b >>),
                    !.data_size = 12]
          [] effect.kind = "Breathing" /\ effect.effect.kind = "Random" ->
                [msg EXCEPT !.data_size = 6]
          [] effect.kind = "Reactive" ->
                LET speed == clamp(effect.speed, 1, 4)
                IN  [msg EXCEPT
                        !.arguments = copy_from_slice(msg.arguments, 4,
                            << speed, 1, effect.color.r, effect.color.g,
                               effect.color.b >>),
                        !.data_size = 9]

\* Variant: a byte with no mapping is read as the slowest rate.
get_polling_rate_decode_lenient(arguments) ==
    CASE arguments[0] = 1 -> Ok(1000)
      [] arguments[0] = 2 -> Ok(500)
      [] OTHER -> Ok(125)

get_polling_rate_decode(arguments) ==
    CASE arguments[0] = 1 -> Ok(1000)
      [] arguments[0] = 2 -> Ok(500)
      [] arguments[0] = 8 -> Ok(125)
      [] OTHER -> Err("Invalid polling rate response")

\* response.arguments()[1] as f32 / 255. * 100., kept as an exact fraction
get_battery_level_decode(arguments) ==
    [num |-> arguments[1] * 100, den |-> 255]

get_charging_status_decode(arguments) == arguments[1] > 0

(***************************************************************************)
(* The FeatureSet of a claimed device (devices.rs, driver_macros/lib.rs).  *)
(* A device implements the methods its device_impls! entry lists; every    *)
(* other method keeps the trait's default, Err("Unimplemented").           *)
(***************************************************************************)
GetFeatures ==
    {"get_dpi", "get_dpi_stages", "get_polling_rate", "get_battery_level",
     "get_charging_status"}
SetFeatures ==
    {"set_dpi", "set_dpi_stages", "set_polling_rate",
     "chroma_logo_matrix_effect"}
Features == GetFeatures \cup SetFeatures

\* set_polling_rate_extended: the set_polling_rate of a device whose
\* firmware takes the extended rates; no registered device lists it.
ExtendedPollingFeatures == {"set_polling_rate_extended"}
Operations == Features \cup ExtendedPollingFeatures

\* device_impls!([ DeathadderV2ProWireless 0x007D { ... } ])
DeathadderV2ProWireless == Features

\* const DEATHADDER_V2_PRO_WIRELESS: u16, the product id of the entry
DEATHADDER_V2_PRO_WIRELESS == 125

\* Variant: an id with no entry gets the methods of the registered device.
get_device_impl_fallback(product_id) == Ok(DeathadderV2ProWireless)

\* get_device_impl(product_id, interface), generated by device_impls!
get_device_impl(product_id) ==
    IF product_id = DEATHADDER_V2_PRO_WIRELESS
    THEN Ok(DeathadderV2ProWireless)
    ELSE Err("Unsupported device")

\* Variant: get_dpi asks for the other variable store than set_dpi writes.
get_dpi_0x3f_request_var_store ==
    build(with_transaction_id(
        RazerMessageBuilder_get_dpi(VarStoreId_VarStore), TRANSACTION_ID))

\* get_dpi_0x3f: get_dpi(interface, 0x3f, VarStoreId::NoStore)
get_dpi_0x3f_request ==
    build(with_transaction_id(
        RazerMessageBuilder_get_dpi(VarStoreId_NoStore), TRANSACTION_ID))

\* Variant: set_dpi writes the variable store the stage table is kept in.
set_dpi_0x3f_request_var_store(dpi) ==
    build(with_transaction_id(
        RazerMessageBuilder_set_dpi(VarStoreId_VarStore, dpi), TRANSACTION_ID))

\* set_dpi_0x3f: set_dpi(interface, dpi, 0x3f, VarStoreId::NoStore)
set_dpi_0x3f_request(dpi) ==
    build(with_transaction_id(
        RazerMessageBuilder_set_dpi(VarStoreId_NoStore, dpi), TRANSACTION_ID))

\* The request each implemented operation builds before its first transfer.
FeatureRequest(o) ==
    CASE o.fn = "get_dpi" -> get_dpi_0x3f_request
      [] o.fn = "set_dpi" -> set_dpi_0x3f_request(o.arg)
      [] o.fn = "get_dpi_stages" ->
            build(with_transaction_id(
                RazerMessageBuilder_get_dpi_stages(VarStoreId_VarStore),
                TRANSACTION_ID))
      [] o.fn = "set_dpi_stages" ->
            build(with_transaction_id(
                RazerMessageBuilder_set_dpi_stages(VarStoreId_VarStore, o.arg),
                TRANSACTION_ID))
      [] o.fn = "get_polling_rate" ->
            build(with_transaction_id(RazerMessageBuilder_get_polling_rate,
                                      TRANSACTION_ID))
      [] o.fn = "set_polling_rate" ->
            build(with_transaction_id(
                RazerMessageBuilder_set_polling_rate(o.arg.rate),
                TRANSACTION_ID))
      [] o.fn = "set_polling_rate_extended" ->
            build(with_transaction_id(
                RazerMessageBuilder_set_polling_rate_extended(o.arg.rate),
                TRANSACTION_ID_0x1f))
      [] o.fn = "get_battery_level" ->
            build(with_transaction_id(RazerMessageBuilder_get_battery_level,
                                      TRANSACTION_ID))
      [] o.fn = "get_charging_status" ->
            build(with_transaction_id(RazerMessageBuilder_get_charging_status,
                                      TRANSACTION_ID))
      [] o.fn = "chroma_logo_matrix_effect" ->
            build(with_transaction_id(
                RazerMessageBuilder_chroma_extended_matrix_effect(
                    VarStoreId_VarStore, LedId_Logo, o.arg),
                TRANSACTION_ID))

\* set_polling_rate matches on the kind before it builds anything.
\* Variant: a rate of the other kind is refused only when the device's own
\* kind has no rate of that value, and is converted otherwise.
RejectedBeforeIO_converting(o) ==
    \/ /\ o.fn = "set_polling_rate"
       /\ o.arg.kind = "Extended"
       /\ o.arg.rate \notin NormalPollingRates
    \/ /\ o.fn = "set_polling_rate_extended"
       /\ o.arg.kind = "Normal"
       /\ o.arg.rate \notin ExtendedPollingRates

\* set_polling_rate refuses PollingRate::Extended(_), set_polling_rate_extended
\* refuses PollingRate::Normal(_): an error, no request is built.
RejectedBeforeIO(o) ==
    \/ o.fn = "set_polling_rate" /\ o.arg.kind = "Extended"
    \/ o.fn = "set_polling_rate_extended" /\ o.arg.kind = "Normal"

RejectionError(o) ==
    IF o.fn = "set_polling_rate"
    THEN Err("Trying to use ExtendedPollingRate on a NormalPollingRate device.")
    ELSE Err("Trying to use NormalPollingRate on an ExtendedPollingRate device.")

\* What each get_* returns for a parsed response.
FeatureDecode(o, response) ==
    CASE o.fn = "get_dpi" -> Ok(get_dpi_decode(response.arguments))
      [] o.fn = "get_dpi_stages" -> Ok(get_dpi_stages_decode(response.arguments))
      [] o.fn = "get_polling_rate" -> get_polling_rate_decode(response.arguments)
      [] o.fn = "get_battery_level" -> Ok(get_battery_level_decode(response.arguments))
      [] o.fn = "get_charging_status" -> Ok(get_charging_status_decode(response.arguments))

(***************************************************************************)
(* The device, as far as the driver can observe it: it keeps the last DPI  *)
(* and the last stage table it was sent per variable store and the last    *)
(* polling-rate byte, remembers the last report written to it, and answers *)
(* a GET_REPORT for that report from what it keeps.                        *)
(***************************************************************************)
VarStores == {VarStoreId_NoStore, VarStoreId_VarStore}

DeviceStagesFromArguments(a) ==
    [active |-> a[1],
     stages |-> [k \in 1 .. Min2(a[2], NumChunks) |->
                    << a[3 + 7 * (k - 1) + 1] * 256 + a[3 + 7 * (k - 1) + 2],
                       a[3 + 7 * (k - 1) + 3] * 256 + a[3 + 7 * (k - 1) + 4] >>]]

\* SET_REPORT: the device takes the report and applies a set command.
DeviceWrite(dev, m) ==
    LET a == m.arguments
        applied ==
            CASE m.command_class = 4 /\ m.command_id = 5 /\ a[0] \in VarStores ->
                    [dev EXCEPT !.dpi[a[0]] = [x |-> a[1] * 256 + a[2],
                                               y |-> a[3] * 256 + a[4]]]
              [] m.command_class = 4 /\ m.command_id = 6 /\ a[0] \in VarStores ->
                    [dev EXCEPT !.stages[a[0]] = DeviceStagesFromArguments(a)]
              [] m.command_class = 0 /\ m.command_id = 5 ->
                    [dev EXCEPT !.rate = a[0]]
              [] OTHER -> dev
    IN  [applied EXCEPT !.pending =
            Some([transaction_id |-> m.transaction_id,
                  data_size |-> m.data_size,
                  command_class |-> m.command_class,
                  command_id |-> m.command_id,
                  var_store |-> a[0]])]

\* The argument bytes of the answer to the pending report.  The stage table
\* is answered in the documented response format (stage numbers from 1).
DeviceAnswerArguments(dev, p) ==
    [i \in 0 .. (RAZER_REPORT_ARGUMENT_SIZE - 1) |->
        CASE p.command_class = 4 /\ p.command_id = 133 /\ p.var_store \in VarStores ->
                LET d == dev.dpi[p.var_store]
                IN  CASE i = 0 -> p.var_store
                      [] i = 1 -> d.x \div 256
                      [] i = 2 -> d.x % 256
                      [] i = 3 -> d.y \div 256
                      [] i = 4 -> d.y % 256
                      [] OTHER -> 0
          [] p.command_class = 4 /\ p.command_id = 134 /\ p.var_store \in VarStores ->
                LET t == dev.stages[p.var_store]
                    k == (i - 3) \div 7
                    j == (i - 3) % 7
                IN  CASE i = 0 -> p.var_store
                      [] i = 1 -> t.active
                      [] i = 2 -> Len(t.stages)
                      [] i >= 3 /\ k < Len(t.stages) ->
                            CASE j = 0 -> k + 1
                              [] j = 1 -> t.stages[k + 1][1] \div 256
                              [] j = 2 -> t.stages[k + 1][1] % 256
                              [] j = 3 -> t.stages[k + 1][2] \div 256
                              [] j = 4 -> t.stages[k + 1][2] % 256
                              [] OTHER -> 0
                      [] OTHER -> 0
          [] p.command_class = 0 /\ p.command_id = 133 ->
                IF i = 0 THEN dev.rate ELSE 0
          [] p.command_class = 7 /\ p.command_id = 128 ->
                IF i = 1 THEN dev.battery ELSE 0
          [] p.command_class = 7 /\ p.command_id = 132 ->
                IF i = 1 THEN dev.charging ELSE 0
          [] OTHER -> IF i = 0 THEN p.var_store ELSE 0]

\* GET_REPORT: the 90 bytes the device returns; all zero when no report is
\* pending.
DeviceAnswer(dev) ==
    IF dev.pending = None
    THEN [i \in 0 .. (RAZER_REPORT_SIZE - 1) |-> 0]
    ELSE LET p == Unwrap(dev.pending)
             m == [status |-> 2,
                   transaction_id |-> p.transaction_id,
                   remaining_packets |-> 0,
                   protocol_type |-> 0,
                   data_size |-> p.data_size,
                   command_class |-> p.command_class,
                   command_id |-> p.command_id,
                   arguments |-> DeviceAnswerArguments(dev, p),
                   crc |-> 0,
                   reserved |-> 0]
         IN  as_bytes([m EXCEPT !.crc = XorRange(as_bytes(m), 2, 87)])

\* The answer is read once.
DeviceAfterRead(dev) == [dev EXCEPT !.pending = None]

(***************************************************************************)
(* State.                                                                  *)
(***************************************************************************)
VARIABLES
    \* SpecCodec: an input drawn at Init and what the codec made of it
    cin,        \* the drawn input, a record tagged by fn
    ctable,     \* Option<Result<DpiStages>>: what DpiStages::new returned
    cmsg,       \* Option<RazerMessage>: the request built from the input
    cdec,       \* Option: what the response decoder read from the bytes
    cmsg2,      \* Option<RazerMessage>: the request built from cdec
    calt,       \* Option<[pos, val]>: one byte of cmsg overwritten
    \* Spec, SpecBatched: a claimed device and the call in progress on it
    profile,    \* the FeatureSet methods the claimed device implements
                \* (none while no handle exists)
    device,     \* what the device keeps (see DeviceWrite)
    dev0,       \* the device as it was when the call in progress started
    pc,         \* "idle", "bsleep", "send", "wait", "recv", "ret" or "done";
                \* "unclaimed" before claim, "unsupported" after it failed
    call,       \* Option: the caller's call in progress, [fn, arg]
    op,         \* Option: the FeatureSet operation in progress, [fn, arg]
    ret,        \* Option<Result>: what the FeatureSet operation returned
    result,     \* Option: what the caller's call returned
    prev,       \* Option<Dpi>: the argument of the set_dpi call that was the
                \* last call to complete, when it succeeded
    bstep,      \* the query (1..5) or field (1..3) a batched call is at
    locals,     \* get_batched's local Results, None until assigned
    wire,       \* the sleeps and transfers of the call in progress
    faults,     \* transfers that failed or fell short during the call
    \* SpecGui: the commands the device page has spawned on one device
    tasks,      \* per command slot: the command and where it is
    owner,      \* Option: the command that holds the interface claim
    writer,     \* Option: the command that wrote the device's pending report
    \* SpecPage, SpecStages, SpecApp: the components of the GUI
    page,       \* DevicePage: usb_device_info, razer_device_info,
                \* pending_changes
    commands,   \* the oneshot commands of the page that have not reported
    dpi_stages_list,    \* DpiStagesList.dpi_stages: the listings shown
    device_list,        \* App.device_list: the devices shown on the home page
    inbox,      \* the AppMsg messages sent to the App and not handled yet
    root_stack, \* the visible child of the App's root_stack
    connected,  \* the USB devices nusb::list_devices() reports
    hist        \* history: the last message handled and what it did

codec_vars == << cin, ctable, cmsg, cdec, cmsg2, calt >>

driver_vars ==
    << profile, device, dev0, pc, call, op, ret, result, prev, bstep, locals,
       wire, faults >>

app_vars ==
    << page, commands, dpi_stages_list, device_list, inbox, root_stack, connected, hist >>

gui_vars == << tasks, owner, writer, app_vars >>

(***************************************************************************)
(* The device at power-on and the driver with no call in progress.         *)
(***************************************************************************)
DeviceInit(rate) ==
    [dpi |-> [v \in VarStores |-> [x |-> 1600, y |-> 1600]],
     stages |-> [v \in VarStores |->
                    [active |-> 1, stages |-> << <<400, 400>>, <<1600, 1600>> >>]],
     rate |-> rate,
     battery |-> 128,
     charging |-> 1,
     pending |-> None]

EmptyLocals ==
    [dpi |-> None, dpi_range |-> None, dpi_stages |-> None,
     polling_rate |-> None, battery_level |-> None, charging_status |-> None]

NoCallInProgress ==
    /\ pc = "idle"
    /\ call = None
    /\ op = None
    /\ ret = None
    /\ result = None
    /\ bstep = 0
    /\ locals = EmptyLocals
    /\ wire = << >>
    /\ faults = 0

\* The driver part of the state while only the codec is exercised.
DriverAtRest ==
    /\ profile = DeathadderV2ProWireless
    /\ device = DeviceInit(1)
    /\ dev0 = device
    /\ prev = None
    /\ NoCallInProgress

\* Commands the device page may have running at once.
MaxCommands == 2

CommandSlots == 1 .. MaxCommands

NoSettings == [dpi |-> None, dpi_stages |-> None, polling_rate |-> None]

\* A slot with no command in it.
IdleTask ==
    [cmd |-> "none", settings |-> NoSettings, pc |-> "idle", phase |-> "none",
     step |-> 0, op |-> None, locals |-> EmptyLocals, faults |-> 0, own |-> TRUE]

\* driver::batched::DeviceInfo::default()
DeviceInfo_default ==
    [dpi |-> None, dpi_range |-> << 0, 0 >>, dpi_stages |-> None,
     polling_rate |-> None, battery_level |-> None, charging_status |-> None]

\* DevicePage as init() builds it.
DevicePage_init ==
    [usb_device_info |-> None,
     razer_device_info |-> DeviceInfo_default,
     pending_changes |-> NoSettings]

NoHistory == [last |-> "none"]

\* The GUI components as their init() leaves them, with nothing connected.
AppAtRest ==
    /\ page = DevicePage_init
    /\ commands = << >>
    /\ dpi_stages_list = << >>
    /\ device_list = << >>
    /\ inbox = << >>
    /\ root_stack = "home"
    /\ connected = {}
    /\ hist = NoHistory

\* The device page with no command running.
GuiAtRest ==
    /\ tasks = [t \in CommandSlots |-> IdleTask]
    /\ owner = None
    /\ writer = None
    /\ AppAtRest

\* The codec part of the state while the driver is exercised.
CodecAtRest ==
    /\ cin = [fn |-> "none"]
    /\ ctable = None
    /\ cmsg = None
    /\ cdec = None
    /\ cmsg2 = None
    /\ calt = None

(***************************************************************************)
(* Bounds and input samples of SpecCodec.                                  *)
(***************************************************************************)
\* Longest stage list handed to DpiStages::new (one more than is accepted).
MaxInputLen == 6

\* u16 values around the clamp limits and the byte boundaries.
DpiSamples == {0, 99, 100, 255, 256, 800, 35000, 35001, 65535}

DpiInputs == [x : DpiSamples, y : DpiSamples]

\* Stage lists are prefixes of these.
StageListA ==
    << <<800, 800>>, <<1800, 1800>>, <<2800, 2800>>, <<3800, 3800>>,
       <<4800, 4800>>, <<5800, 5800>>, <<6800, 6800>>, <<7800, 7800>> >>
StageListB ==
    << <<0, 65535>>, <<99, 35001>>, <<100, 35000>>, <<255, 256>>,
       <<65535, 1>>, <<35001, 99>>, <<256, 255>>, <<1, 0>> >>

StageListInputs ==
    { SubSeq(l, 1, n) : l \in {StageListA, StageListB}, n \in 0 .. MaxInputLen }

ActiveInputs == (0 .. (MaxInputLen + 1)) \cup {255}

\* Bytes a device may put at the active-stage and stage-count offsets.
HeaderByteSamples == {0, 1, 2, 5, 6, 11, 12, 255}

\* Argument buffers of get-dpi-stages responses: five stage chunks, with
\* any sampled byte as active stage and as number of stages.
StagesResponseInputs ==
    LET base == RazerMessageBuilder_set_dpi_stages(VarStoreId_VarStore,
                    [active |-> 1, stages |-> SubSeq(StageListB, 1, 5)]).arguments
    IN  { [base EXCEPT ![1] = a, ![2] = n] :
            a \in HeaderByteSamples, n \in HeaderByteSamples }

CodecInputs ==
    { [fn |-> "set_dpi", var_store |-> v, dpi |-> d] :
        v \in {VarStoreId_NoStore, VarStoreId_VarStore}, d \in DpiInputs }
    \cup { [fn |-> "dpi_stages", active |-> a, stages |-> l] :
        a \in ActiveInputs, l \in StageListInputs }
    \cup { [fn |-> "stages_response", arguments |-> r] : r \in StagesResponseInputs }

\* Byte values written over a byte of a built message.
AlterValues == {0, 1, 128, 255}

(***************************************************************************)
(* SpecCodec: the codec applied to a drawn input.                          *)
(***************************************************************************)
CodecInit ==
    /\ cin \in CodecInputs
    /\ ctable = None
    /\ cmsg = None
    /\ cdec = None
    /\ cmsg2 = None
    /\ calt = None
    /\ DriverAtRest
    /\ GuiAtRest

\* DpiStages::new(active, stages)
CodecNew ==
    /\ cin.fn = "dpi_stages"
    /\ ctable = None
    /\ ctable' = Some(DpiStages_new(cin.active, cin.stages))
    /\ UNCHANGED << cin, cmsg, cdec, cmsg2, calt >>
    /\ UNCHANGED << driver_vars, gui_vars >>

\* RazerMessageBuilder::set_dpi / set_dpi_stages (...).with_transaction_id(..).build()
CodecBuild ==
    /\ cmsg = None
    /\ \/ /\ cin.fn = "set_dpi"
          /\ cmsg' = Some(build(with_transaction_id(
                        RazerMessageBuilder_set_dpi(cin.var_store, cin.dpi),
                        TRANSACTION_ID)))
       \/ /\ cin.fn = "dpi_stages"
          /\ IsSome(ctable)
          /\ Unwrap(ctable).ok
          /\ cmsg' = Some(build(with_transaction_id(
                        RazerMessageBuilder_set_dpi_stages(VarStoreId_VarStore,
                                                           Unwrap(ctable).val),
                        TRANSACTION_ID)))
    /\ UNCHANGED << cin, ctable, cdec, cmsg2, calt >>
    /\ UNCHANGED << driver_vars, gui_vars >>

\* The decoder of get_dpi / get_dpi_stages applied to argument bytes: those
\* of the request just built, or those of a drawn response.
CodecDecode ==
    /\ cdec = None
    /\ calt = None
    /\ \/ /\ cin.fn = "set_dpi"
          /\ IsSome(cmsg)
          /\ cdec' = Some(get_dpi_decode(Unwrap(cmsg).arguments))
       \/ /\ cin.fn = "dpi_stages"
          /\ IsSome(cmsg)
          /\ cdec' = Some(get_dpi_stages_decode(Unwrap(cmsg).arguments))
       \/ /\ cin.fn = "stages_response"
          /\ cdec' = Some(get_dpi_stages_decode(cin.arguments))
    /\ UNCHANGED << cin, ctable, cmsg, cmsg2, calt >>
    /\ UNCHANGED << driver_vars, gui_vars >>

\* set_dpi applied to the pair that was decoded; set_dpi_stages applied to
\* the table get_dpi_stages read from a response.
CodecReencode ==
    /\ IsSome(cdec)
    /\ cmsg2 = None
    /\ \/ /\ cin.fn = "set_dpi"
          /\ cmsg2' = Some(build(with_transaction_id(
                          RazerMessageBuilder_set_dpi(cin.var_store, Unwrap(cdec)),
                          TRANSACTION_ID)))
       \/ /\ cin.fn = "stages_response"
          /\ cmsg2' = Some(build(with_transaction_id(
                          RazerMessageBuilder_set_dpi_stages(VarStoreId_VarStore,
                                                             Unwrap(cdec)),
                          TRANSACTION_ID)))
    /\ UNCHANGED << cin, ctable, cmsg, cdec, calt >>
    /\ UNCHANGED << driver_vars, gui_vars >>

\* One byte of the built record is overwritten.
CodecAlter ==
    /\ IsSome(cmsg)
    /\ cdec = None
    /\ calt = None
    /\ \E p \in 0 .. (RAZER_REPORT_SIZE - 1), v \in AlterValues :
          calt' = Some([pos |-> p, val |-> v])
    /\ UNCHANGED << cin, ctable, cmsg, cdec, cmsg2 >>
    /\ UNCHANGED << driver_vars, gui_vars >>

CodecNext ==
    \/ CodecNew
    \/ CodecBuild
    \/ CodecDecode
    \/ CodecReencode
    \/ CodecAlter

vars ==
    << cin, ctable, cmsg, cdec, cmsg2, calt, profile, device, dev0, pc, call,
       op, ret, result, prev, bstep, locals, wire, faults, tasks, owner, writer,
       page, commands, dpi_stages_list, device_list, inbox, root_stack,
       connected, hist >>

SpecCodec == CodecInit /\ [][CodecNext]_vars


(***************************************************************************)
(* SpecMessage: the remaining encoders, the polling-rate decoder and the   *)
(* response parser applied to drawn inputs.                                *)
(***************************************************************************)
\* Every value of the byte get_polling_rate reads.
PollingRateMessageInputs ==
    { [fn |-> "set_polling_rate", rate |-> r] : r \in NormalPollingRates }
    \cup { [fn |-> "polling_rate_response",
            arguments |-> [ZeroArguments EXCEPT ![0] = b]] : b \in 0 .. (U8 - 1) }

ColorSamples == {Color(0, 0, 0), Color(255, 0, 128), Color(12, 255, 29)}

SpeedSamples == {0, 1, 2, 4, 5, 9, 255}

EffectInputs ==
    {ExtendedMatrixEffect_None, ExtendedMatrixEffect_Spectrum,
     ExtendedMatrixEffect_Breathing(BreathingEffect_Random)}
    \cup {ExtendedMatrixEffect_Static(c) : c \in ColorSamples}
    \cup {ExtendedMatrixEffect_Breathing(BreathingEffect_Single(c)) : c \in ColorSamples}
    \cup {ExtendedMatrixEffect_Breathing(BreathingEffect_Dual(c, d)) :
             c \in ColorSamples, d \in ColorSamples}
    \cup {ExtendedMatrixEffect_Reactive(c, v) : c \in ColorSamples, v \in SpeedSamples}

ChromaMessageInputs ==
    { [fn |-> "chroma_extended_matrix_effect", var_store |-> v, led_id |-> LedId_Logo,
       effect |-> e] : v \in VarStores, e \in EffectInputs }

\* Inputs of the other builders.
BuilderMessageInputs ==
    { [fn |-> f] : f \in {"get_polling_rate", "get_battery_level",
                           "get_charging_status"} }
    \cup { [fn |-> f, var_store |-> v] :
             f \in {"get_dpi", "get_dpi_stages"}, v \in VarStores }
    \cup { [fn |-> "set_dpi", var_store |-> v, dpi |-> d] :
             v \in VarStores,
             d \in {[x |-> 800, y |-> 800], [x |-> 0, y |-> 65535],
                    [x |-> 35001, y |-> 99], [x |-> 255, y |-> 256]} }
    \cup { [fn |-> "set_dpi_stages", var_store |-> v,
            dpi_stages |-> DpiStages_new(1, SubSeq(l, 1, n)).val] :
             v \in VarStores, l \in {StageListA, StageListB},
             n \in 1 .. RAZER_MOUSE_MAX_DPI_STAGES }
    \cup { [fn |-> "set_polling_rate_extended", rate |-> r] :
             r \in ExtendedPollingRates }

\* The transaction ids in use: 0x3f by the registered device, 0x1f by
\* set_polling_rate_extended.
TransactionIds == {TRANSACTION_ID, TRANSACTION_ID_0x1f}

\* Lengths of the byte sequence a control-in transfer may return.
ResponseLengths == {0, 1, 64, 89, 90, 91, 180}

StatusSamples == {0, 1, 2, 3, 4, 5}

\* Byte sequences returned by a control-in transfer: all zero, all 0xFF,
\* and the report of a get_dpi answer repeated to the length, with any
\* sampled status byte and a crc that is right, zero or 0xFF.
ResponseBytesInputs ==
    LET report == as_bytes(build(with_transaction_id(
                      RazerMessageBuilder_set_dpi(VarStoreId_NoStore,
                                                  [x |-> 800, y |-> 1600]),
                      TRANSACTION_ID)))
        fills == {[i \in 0 .. (RAZER_REPORT_SIZE - 1) |-> 0],
                  [i \in 0 .. (RAZER_REPORT_SIZE - 1) |-> 255]}
                 \cup {[report EXCEPT ![0] = st, ![88] = c] :
                          st \in StatusSamples, c \in {report[88], 0, 255}}
    IN  { [fn |-> "response_bytes",
           data |-> [i \in 0 .. (n - 1) |-> f[i % RAZER_REPORT_SIZE]]] :
            n \in ResponseLengths, f \in fills }

\* Colour texts as UTF-8 bytes: well-formed ones, then too short, too long,
\* without '#', with a non-hexadecimal character, with signs, and with a
\* two-byte character (0xC3 0xA9) at several places.
ColorTexts ==
    { << 35, 48, 99, 102, 102, 49, 100 >>,          \* #0cff1d
      << 35, 70, 70, 70, 70, 70, 70 >>,             \* #FFFFFF
      << 35, 48, 48, 48, 48, 48, 48 >>,             \* #000000
      << 35, 48, 67, 70, 102, 49, 68 >>,            \* #0CFf1D
      << >>,                                        \* (empty)
      << 35 >>,                                     \* #
      << 35, 48, 99 >>,                             \* #0c
      << 35, 48, 99, 102, 102, 49 >>,               \* #0cff1
      << 48, 99, 102, 102, 49, 100 >>,              \* 0cff1d
      << 35, 103, 103, 48, 48 >>,                   \* #gg00
      << 35, 48, 99, 102, 102, 49, 100, 48 >>,      \* #0cff1d0
      << 35, 48, 99, 102, 102, 49, 100, 32, 120 >>, \* #0cff1d x
      << 120, 48, 99, 102, 102, 49, 100 >>,         \* x0cff1d
      << 48, 48, 99, 102, 102, 49, 100 >>,          \* 00cff1d
      << 35, 48, 99, 102, 103, 49, 100 >>,          \* #0cfg1d
      << 35, 48, 99, 102, 102, 49, 32 >>,           \* #0cff1(space)
      << 35, 43, 102, 43, 102, 43, 102 >>,          \* #+f+f+f
      << 35, 45, 49, 45, 49, 45, 49 >>,             \* #-1-1-1
      << 35, 43, 43, 48, 48, 48, 48 >>,             \* #++0000
      << 35, 195, 169, 48, 48, 48, 48 >>,           \* #(e-acute)0000
      << 35, 48, 195, 169, 48, 48, 48 >>,           \* #0(e-acute)000
      << 35, 48, 99, 102, 102, 49, 195, 169 >> }    \* #0cff1(e-acute)

ColorTextInputs == { [fn |-> "color_text", text |-> t] : t \in ColorTexts }

\* Byte triples handed to Color::from.
TupleByteSamples == {0, 1, 128, 255}

ColorTupleInputs ==
    { [fn |-> "color_tuple", value |-> << r, g, b >>] :
        r \in TupleByteSamples, g \in TupleByteSamples, b \in TupleByteSamples }

EncoderMessageInputs ==
    { i @@ [transaction_id |-> t] :
        i \in { j \in PollingRateMessageInputs : j.fn = "set_polling_rate" }
               \cup ChromaMessageInputs \cup BuilderMessageInputs,
        t \in TransactionIds }

MessageInputs ==
    EncoderMessageInputs
    \cup { j \in PollingRateMessageInputs : j.fn = "polling_rate_response" }
    \cup ResponseBytesInputs
    \cup ColorTextInputs
    \cup ColorTupleInputs

\* The builder an input is handed to.
Encode(i) ==
    CASE i.fn = "get_dpi" -> RazerMessageBuilder_get_dpi(i.var_store)
      [] i.fn = "set_dpi" -> RazerMessageBuilder_set_dpi(i.var_store, i.dpi)
      [] i.fn = "get_dpi_stages" -> RazerMessageBuilder_get_dpi_stages(i.var_store)
      [] i.fn = "set_dpi_stages" ->
            RazerMessageBuilder_set_dpi_stages(i.var_store, i.dpi_stages)
      [] i.fn = "get_polling_rate" -> RazerMessageBuilder_get_polling_rate
      [] i.fn = "set_polling_rate" -> RazerMessageBuilder_set_polling_rate(i.rate)
      [] i.fn = "set_polling_rate_extended" ->
            RazerMessageBuilder_set_polling_rate_extended(i.rate)
      [] i.fn = "get_battery_level" -> RazerMessageBuilder_get_battery_level
      [] i.fn = "get_charging_status" -> RazerMessageBuilder_get_charging_status
      [] i.fn = "chroma_extended_matrix_effect" ->
            RazerMessageBuilder_chroma_extended_matrix_effect(
                i.var_store, i.led_id, i.effect)

EncoderInputs ==
    {"get_dpi", "set_dpi", "get_dpi_stages", "set_dpi_stages", "get_polling_rate",
     "set_polling_rate", "set_polling_rate_extended", "get_battery_level",
     "get_charging_status", "chroma_extended_matrix_effect"}

MessageInit ==
    /\ cin \in MessageInputs
    /\ ctable = None
    /\ cmsg = None
    /\ cdec = None
    /\ cmsg2 = None
    /\ calt = None
    /\ DriverAtRest
    /\ GuiAtRest

\* <builder>.with_transaction_id(transaction_id).build()
MessageBuild ==
    /\ cin.fn \in EncoderInputs
    /\ cmsg = None
    /\ cmsg' = Some(build(with_transaction_id(Encode(cin), cin.transaction_id)))
    /\ UNCHANGED << cin, ctable, cdec, cmsg2, calt >>
    /\ UNCHANGED << driver_vars, gui_vars >>

\* get_polling_rate's match applied to argument bytes: those of the request
\* just built, or those of a drawn response.
MessageDecode ==
    /\ cdec = None
    /\ \/ /\ cin.fn = "set_polling_rate"
          /\ IsSome(cmsg)
          /\ cdec' = Some(get_polling_rate_decode(Unwrap(cmsg).arguments))
       \/ /\ cin.fn = "polling_rate_response"
          /\ cdec' = Some(get_polling_rate_decode(cin.arguments))
    /\ UNCHANGED << cin, ctable, cmsg, cmsg2, calt >>
    /\ UNCHANGED << driver_vars, gui_vars >>

\* RazerMessage::read_from_bytes(&data).map_err(..) on the bytes control_in
\* returned (send_razer_message_and_wait_response)
MessageParse ==
    /\ cin.fn = "response_bytes"
    /\ cdec = None
    /\ cdec' = Some(read_from_bytes(cin.data))
    /\ UNCHANGED << cin, ctable, cmsg, cmsg2, calt >>
    /\ UNCHANGED << driver_vars, gui_vars >>

\* color.parse(): <Color as FromStr>::from_str
MessageParseColor ==
    /\ cin.fn = "color_text"
    /\ cdec = None
    /\ cdec' = Some(Color_from_str(cin.text))
    /\ UNCHANGED << cin, ctable, cmsg, cmsg2, calt >>
    /\ UNCHANGED << driver_vars, gui_vars >>

\* Color::from((r, g, b))
MessageConvertColor ==
    /\ cin.fn = "color_tuple"
    /\ cdec = None
    /\ cdec' = Some(Color_from(cin.value))
    /\ UNCHANGED << cin, ctable, cmsg, cmsg2, calt >>
    /\ UNCHANGED << driver_vars, gui_vars >>

MessageNext ==
    \/ MessageBuild
    \/ MessageDecode
    \/ MessageParse
    \/ MessageParseColor
    \/ MessageConvertColor

SpecMessage == MessageInit /\ [][MessageNext]_vars

(***************************************************************************)
(* Bounds and input samples of Spec and SpecBatched.                       *)
(***************************************************************************)
\* Transfers that may fail or fall short during one call of the caller.
MaxFaults == 1

\* The number of bytes a control-in transfer returns when it falls short.
ShortReadLen == 64

\* Profiles: the registered device; the same without get_charging_status;
\* and the two-method device of the macro's documentation.
WithoutChargingStatus == DeathadderV2ProWireless \ {"get_charging_status"}
DpiOnly == {"get_dpi", "set_dpi"}
\* A device_impls! entry with an empty method list.
NoFeatures == {}
ExtendedPollingDevice == DpiOnly \cup ExtendedPollingFeatures

\* The polling-rate byte the device reports before any is set: a mapped one
\* and one get_polling_rate has no mapping for.
DeviceRates == {1, 0}

Dpi(x, y) == [x |-> x, y |-> y]

FeatureDpiInputs ==
    {Dpi(800, 800), Dpi(0, 65535), Dpi(35001, 99), Dpi(100, 35000), Dpi(1800, 256)}

StageTable(active, stages) == DpiStages_new(active, stages).val

FeatureCalls ==
    { [fn |-> f, arg |-> None] : f \in GetFeatures }
    \cup { [fn |-> "set_dpi", arg |-> d] : d \in FeatureDpiInputs }
    \cup { [fn |-> "set_dpi_stages", arg |-> StageTable(2, SubSeq(StageListA, 1, 2))] }
    \cup { [fn |-> "set_polling_rate", arg |-> r] :
             r \in {Normal(n) : n \in NormalPollingRates}
                   \cup {Extended(n) : n \in ExtendedPollingRates} }
    \cup { [fn |-> "set_polling_rate_extended", arg |-> r] :
             r \in {Normal(n) : n \in NormalPollingRates}
                   \cup {Extended(8000), Extended(125)} }
    \cup { [fn |-> "chroma_logo_matrix_effect", arg |-> e] :
             e \in {ExtendedMatrixEffect_Spectrum,
                    ExtendedMatrixEffect_Static(Color(255, 0, 128))} }

\* DeviceSettings: each field present or absent.
SettingsInputs ==
    [dpi : {None, Some(Dpi(800, 800))},
     dpi_stages : {None, Some(StageTable(2, SubSeq(StageListA, 1, 2)))},
     polling_rate : {None, Some(Normal(500)), Some(Extended(8000))}]

(***************************************************************************)
(* The transfers of one FeatureSet operation (common.rs):                  *)
(*   send_razer_message                    control_out                     *)
(*   send_razer_message_and_wait_response  control_out, sleep, control_in  *)
(***************************************************************************)
SleepEvent ==
    [kind |-> "sleep", ok |-> TRUE, command_class |-> 0, command_id |-> 0, len |-> 0]
OutEvent(m, ok) ==
    [kind |-> "out", ok |-> ok, command_class |-> m.command_class,
     command_id |-> m.command_id, len |-> RAZER_REPORT_SIZE]
InEvent(m, ok, len) ==
    [kind |-> "in", ok |-> ok, command_class |-> m.command_class,
     command_id |-> m.command_id, len |-> len]

\* The state at the start of a call on the claimed device.
StartCall(c) ==
    /\ call' = Some(c)
    /\ dev0' = device
    /\ IF c.fn \in Operations
       THEN op' = Some(c) /\ pc' = "send"
       ELSE op' = None /\ pc' = "bsleep"
    /\ UNCHANGED << profile, device, ret, result, prev, bstep, locals, wire, faults >>
    /\ UNCHANGED << codec_vars, gui_vars >>

CallFeature ==
    /\ pc = "idle"
    /\ \E c \in FeatureCalls :
          /\ c.fn \in Features \/ c.fn \in profile
          /\ StartCall(c)

CallGetBatched ==
    /\ pc = "idle"
    /\ StartCall([fn |-> "get_batched", arg |-> None])

CallSetBatched ==
    /\ pc = "idle"
    /\ \E st \in SettingsInputs : StartCall([fn |-> "set_batched", arg |-> st])

\* The trait's default method: Err(anyhow!("Unimplemented")), no transfer.
\* Variant: the default method queries the device before it reports the error.
Unimplemented_after_transfer ==
    /\ pc = "send"
    /\ Unwrap(op).fn \notin profile
    /\ wire' = Append(wire, OutEvent(get_dpi_0x3f_request, TRUE))
    /\ device' = DeviceWrite(device, get_dpi_0x3f_request)
    /\ ret' = Some(Err("Unimplemented"))
    /\ pc' = "ret"
    /\ UNCHANGED << profile, dev0, call, op, result, prev, bstep, locals, faults >>
    /\ UNCHANGED << codec_vars, gui_vars >>

Unimplemented ==
    /\ pc = "send"
    /\ Unwrap(op).fn \notin profile
    /\ ret' = Some(Err("Unimplemented"))
    /\ pc' = "ret"
    /\ UNCHANGED << profile, device, dev0, call, op, result, prev, bstep, locals,
                    wire, faults >>
    /\ UNCHANGED << codec_vars, gui_vars >>

\* set_polling_rate with PollingRate::Extended(_): an error, no transfer.
RejectPollingRate ==
    /\ pc = "send"
    /\ Unwrap(op).fn \in profile
    /\ RejectedBeforeIO(Unwrap(op))
    /\ ret' = Some(RejectionError(Unwrap(op)))
    /\ pc' = "ret"
    /\ UNCHANGED << profile, device, dev0, call, op, result, prev, bstep, locals,
                    wire, faults >>
    /\ UNCHANGED << codec_vars, gui_vars >>

\* Variant: a write that failed is tried again.
ControlOut_retrying ==
    /\ pc = "send"
    /\ Unwrap(op).fn \in profile
    /\ ~RejectedBeforeIO(Unwrap(op))
    /\ LET request == FeatureRequest(Unwrap(op))
       IN  \/ /\ device' = DeviceWrite(device, request)
              /\ wire' = Append(wire, OutEvent(request, TRUE))
              /\ IF Unwrap(op).fn \in GetFeatures
                 THEN pc' = "wait" /\ ret' = ret
                 ELSE pc' = "ret" /\ ret' = Some(Ok(Unit))
              /\ faults' = faults
           \/ /\ faults < MaxFaults
              /\ faults' = faults + 1
              /\ wire' = Append(wire, OutEvent(request, FALSE))
              /\ ret' = ret
              /\ pc' = "send"
              /\ device' = device
    /\ UNCHANGED << profile, dev0, call, op, result, prev, bstep, locals >>
    /\ UNCHANGED << codec_vars, gui_vars >>

\* send_razer_message: interface.control_out(SET_REPORT, request).  A set_*
\* returns its result; a get_* goes on to sleep and read.
ControlOut ==
    /\ pc = "send"
    /\ Unwrap(op).fn \in profile
    /\ ~RejectedBeforeIO(Unwrap(op))
    /\ LET request == FeatureRequest(Unwrap(op))
       IN  \/ /\ device' = DeviceWrite(device, request)
              /\ wire' = Append(wire, OutEvent(request, TRUE))
              /\ IF Unwrap(op).fn \in GetFeatures
                 THEN pc' = "wait" /\ ret' = ret
                 ELSE pc' = "ret" /\ ret' = Some(Ok(Unit))
              /\ faults' = faults
           \/ /\ faults < MaxFaults
              /\ faults' = faults + 1
              /\ wire' = Append(wire, OutEvent(request, FALSE))
              /\ ret' = Some(Err("control_out failed"))
              /\ pc' = "ret"
              /\ device' = device
    /\ UNCHANGED << profile, dev0, call, op, result, prev, bstep, locals >>
    /\ UNCHANGED << codec_vars, gui_vars >>

\* Variant: the read follows the write at once.
Sleep_skipped ==
    /\ pc = "wait"
    /\ pc' = "recv"
    /\ UNCHANGED << profile, device, dev0, call, op, ret, result, prev, bstep,
                    locals, wire, faults >>
    /\ UNCHANGED << codec_vars, gui_vars >>

\* tokio::time::sleep(RAZER_MOUSE_WAIT_TIME) between the write and the read
Sleep ==
    /\ pc = "wait"
    /\ wire' = Append(wire, SleepEvent)
    /\ pc' = "recv"
    /\ UNCHANGED << profile, device, dev0, call, op, ret, result, prev, bstep,
                    locals, faults >>
    /\ UNCHANGED << codec_vars, gui_vars >>

\* What a get_* returns once control_in delivered the first n bytes of the
\* device's answer.
ReceivedBy(o, n) ==
    LET answer == DeviceAnswer(device)
        data == [i \in 0 .. (n - 1) |-> answer[i]]
        response == read_from_bytes(data)
    IN  IF response.ok
        THEN FeatureDecode(o, response.val)
        ELSE Err(response.err)

Received(n) == ReceivedBy(Unwrap(op), n)

\* interface.control_in(GET_REPORT, 90), read_from_bytes and the decoding
ControlIn ==
    /\ pc = "recv"
    /\ LET request == FeatureRequest(Unwrap(op))
       IN  \/ /\ ret' = Some(Received(RAZER_REPORT_SIZE))
              /\ wire' = Append(wire, InEvent(request, TRUE, RAZER_REPORT_SIZE))
              /\ device' = DeviceAfterRead(device)
              /\ faults' = faults
           \/ /\ faults < MaxFaults
              /\ faults' = faults + 1
              /\ ret' = Some(Received(ShortReadLen))
              /\ wire' = Append(wire, InEvent(request, TRUE, ShortReadLen))
              /\ device' = DeviceAfterRead(device)
           \/ /\ faults < MaxFaults
              /\ faults' = faults + 1
              /\ ret' = Some(Err("control_in failed"))
              /\ wire' = Append(wire, InEvent(request, FALSE, 0))
              /\ device' = device
    /\ pc' = "ret"
    /\ UNCHANGED << profile, dev0, call, op, result, prev, bstep, locals >>
    /\ UNCHANGED << codec_vars, gui_vars >>

\* The operation the caller called returns to the caller.
ReturnFeature ==
    /\ pc = "ret"
    /\ Unwrap(call).fn \in Operations
    /\ result' = ret
    /\ pc' = "done"
    /\ UNCHANGED << profile, device, dev0, call, op, ret, prev, bstep, locals,
                    wire, faults >>
    /\ UNCHANGED << codec_vars, gui_vars >>

\* The caller has its result; the device is idle until the next call.
Finish ==
    /\ pc = "done"
    /\ prev' = IF Unwrap(call).fn = "set_dpi" /\ Unwrap(result).ok
               THEN Some(Unwrap(call).arg)
               ELSE None
    /\ pc' = "idle"
    /\ call' = None
    /\ op' = None
    /\ ret' = None
    /\ result' = None
    /\ bstep' = 0
    /\ locals' = EmptyLocals
    /\ wire' = << >>
    /\ faults' = 0
    /\ dev0' = device
    /\ UNCHANGED << profile, device >>
    /\ UNCHANGED << codec_vars, gui_vars >>

(***************************************************************************)
(* BatchedFeatureSet for dyn FeatureSet (batched.rs).                      *)
(***************************************************************************)
\* Variant: the polling rate is queried before the DPI stages.
get_batched_query_swapped(k) ==
    CASE k = 1 -> "get_dpi"
      [] k = 2 -> "get_polling_rate"
      [] k = 3 -> "get_dpi_stages"
      [] k = 4 -> "get_battery_level"
      [] k = 5 -> "get_charging_status"

\* The k-th awaited query of get_batched.
get_batched_query(k) ==
    CASE k = 1 -> "get_dpi"
      [] k = 2 -> "get_dpi_stages"
      [] k = 3 -> "get_polling_rate"
      [] k = 4 -> "get_battery_level"
      [] k = 5 -> "get_charging_status"

NumQueries == 5

\* self.get_dpi_range(): declared by the profile, no transfer
get_dpi_range == << DPI_MIN, DPI_MAX >>

\* The local the result of the query fn is bound to; dpi_range is bound
\* right after dpi.
BindLocal(l, fn, r) ==
    CASE fn = "get_dpi" -> [l EXCEPT !.dpi = Some(r), !.dpi_range = Some(get_dpi_range)]
      [] fn = "get_dpi_stages" -> [l EXCEPT !.dpi_stages = Some(r)]
      [] fn = "get_polling_rate" -> [l EXCEPT !.polling_rate = Some(r)]
      [] fn = "get_battery_level" -> [l EXCEPT !.battery_level = Some(r)]
      [] fn = "get_charging_status" -> [l EXCEPT !.charging_status = Some(r)]

\* Variant: a failed charging-status query is reported as "not charging".
DeviceInfo_new_charging_default(l) ==
    [dpi |-> ResultOk(Unwrap(l.dpi)),
     dpi_range |-> Unwrap(l.dpi_range),
     dpi_stages |-> ResultOk(Unwrap(l.dpi_stages)),
     polling_rate |-> ResultOk(Unwrap(l.polling_rate)),
     battery_level |-> ResultOk(Unwrap(l.battery_level)),
     charging_status |-> IF Unwrap(l.charging_status).ok
                         THEN Some(Unwrap(l.charging_status).val)
                         ELSE Some(FALSE)]

\* DeviceInfo { dpi: dpi.ok(), dpi_range, dpi_stages: dpi_stages.ok(), ... }
DeviceInfo_new(l) ==
    [dpi |-> ResultOk(Unwrap(l.dpi)),
     dpi_range |-> Unwrap(l.dpi_range),
     dpi_stages |-> ResultOk(Unwrap(l.dpi_stages)),
     polling_rate |-> ResultOk(Unwrap(l.polling_rate)),
     battery_level |-> ResultOk(Unwrap(l.battery_level)),
     charging_status |-> ResultOk(Unwrap(l.charging_status))]

\* tokio::time::sleep(RAZER_MOUSE_WAIT_TIME), then the first query
GetBatchedSleep ==
    /\ pc = "bsleep"
    /\ Unwrap(call).fn = "get_batched"
    /\ wire' = Append(wire, SleepEvent)
    /\ bstep' = 1
    /\ op' = Some([fn |-> get_batched_query(1), arg |-> None])
    /\ pc' = "send"
    /\ UNCHANGED << profile, device, dev0, call, ret, result, prev, locals, faults >>
    /\ UNCHANGED << codec_vars, gui_vars >>

\* A query returned: its Result is bound, and the next query is called or,
\* after the last, the DeviceInfo is returned.
GetBatchedNext ==
    /\ pc = "ret"
    /\ Unwrap(call).fn = "get_batched"
    /\ locals' = BindLocal(locals, Unwrap(op).fn, Unwrap(ret))
    /\ ret' = None
    /\ IF bstep < NumQueries
       THEN /\ bstep' = bstep + 1
            /\ op' = Some([fn |-> get_batched_query(bstep + 1), arg |-> None])
            /\ pc' = "send"
            /\ result' = result
       ELSE /\ bstep' = bstep
            /\ op' = None
            /\ pc' = "done"
            /\ result' = Some(DeviceInfo_new(locals'))
    /\ UNCHANGED << profile, device, dev0, call, prev, wire, faults >>
    /\ UNCHANGED << codec_vars, gui_vars >>

NumFields == 3

\* if let Some(..) = batched.<field k>
FieldPresent(settings, k) ==
    CASE k = 1 -> IsSome(settings.dpi)
      [] k = 2 -> IsSome(settings.dpi_stages)
      [] k = 3 -> IsSome(settings.polling_rate)

\* The set operation of field k.
FieldOp(settings, k) ==
    CASE k = 1 -> [fn |-> "set_dpi", arg |-> Unwrap(settings.dpi)]
      [] k = 2 -> [fn |-> "set_dpi_stages", arg |-> Unwrap(settings.dpi_stages)]
      [] k = 3 -> [fn |-> "set_polling_rate", arg |-> Unwrap(settings.polling_rate)]

\* Variant: the last present field at or after from is taken.
set_batched_next_last(settings, from) ==
    IF \E k \in from .. NumFields : FieldPresent(settings, k)
    THEN CHOOSE k \in from .. NumFields :
            /\ FieldPresent(settings, k)
            /\ \A j \in (k + 1) .. NumFields : ~FieldPresent(settings, j)
    ELSE NumFields + 1

\* The first field at or after from that is present; NumFields + 1 if none.
set_batched_next(settings, from) ==
    IF \E k \in from .. NumFields : FieldPresent(settings, k)
    THEN CHOOSE k \in from .. NumFields :
            /\ FieldPresent(settings, k)
            /\ \A j \in from .. (k - 1) : ~FieldPresent(settings, j)
    ELSE NumFields + 1

\* Variant: the result of a write is dropped and the next field is written.
set_batched_after_ignoring(settings, k, r) ==
    LET n == set_batched_next(settings, k + 1)
    IN  IF n > NumFields
        THEN [done |-> TRUE, result |-> r, step |-> k]
        ELSE [done |-> FALSE, result |-> r, step |-> n]

\* self.set_<field k>(..).await?: an error is returned at once; otherwise
\* the next present field is written or Ok(()) is returned.
set_batched_after(settings, k, r) ==
    LET n == set_batched_next(settings, k + 1)
    IN  IF ~r.ok
        THEN [done |-> TRUE, result |-> r, step |-> k]
        ELSE IF n > NumFields
        THEN [done |-> TRUE, result |-> Ok(Unit), step |-> k]
        ELSE [done |-> FALSE, result |-> r, step |-> n]

\* tokio::time::sleep(RAZER_MOUSE_WAIT_TIME), then the first present field
SetBatchedSleep ==
    /\ pc = "bsleep"
    /\ Unwrap(call).fn = "set_batched"
    /\ wire' = Append(wire, SleepEvent)
    /\ LET settings == Unwrap(call).arg
           n == set_batched_next(settings, 1)
       IN  IF n > NumFields
           THEN /\ result' = Some(Ok(Unit))
                /\ pc' = "done"
                /\ op' = op
                /\ bstep' = bstep
           ELSE /\ result' = result
                /\ pc' = "send"
                /\ op' = Some(FieldOp(settings, n))
                /\ bstep' = n
    /\ UNCHANGED << profile, device, dev0, call, ret, prev, locals, faults >>
    /\ UNCHANGED << codec_vars, gui_vars >>

\* A write returned.
SetBatchedNext ==
    /\ pc = "ret"
    /\ Unwrap(call).fn = "set_batched"
    /\ LET settings == Unwrap(call).arg
           a == set_batched_after(settings, bstep, Unwrap(ret))
       IN  IF a.done
           THEN /\ result' = Some(a.result)
                /\ pc' = "done"
                /\ op' = None
                /\ bstep' = bstep
           ELSE /\ result' = result
                /\ pc' = "send"
                /\ op' = Some(FieldOp(settings, a.step))
                /\ bstep' = a.step
    /\ ret' = None
    /\ UNCHANGED << profile, device, dev0, call, prev, locals, wire, faults >>
    /\ UNCHANGED << codec_vars, gui_vars >>

(***************************************************************************)
(* Spec: single FeatureSet operations on a claimed device.                 *)
(* SpecBatched: get_batched and set_batched on a claimed device.           *)
(***************************************************************************)
DriverInit(profiles) ==
    /\ profile \in profiles
    /\ device \in {DeviceInit(r) : r \in DeviceRates}
    /\ dev0 = device
    /\ prev = None
    /\ NoCallInProgress
    /\ CodecAtRest
    /\ GuiAtRest

Init == DriverInit({DeathadderV2ProWireless, ExtendedPollingDevice, NoFeatures})

Next ==
    \/ CallFeature
    \/ Unimplemented
    \/ RejectPollingRate
    \/ ControlOut
    \/ Sleep
    \/ ControlIn
    \/ ReturnFeature
    \/ Finish

Spec == Init /\ [][Next]_vars

(***************************************************************************)
(* SpecClaim: RazerDevice::claim on a device with a drawn product id,      *)
(* followed by calls on the handle when there is one.                      *)
(***************************************************************************)
\* Product ids of the devices handed to RazerDevice::new.
ProductIds == {0, 124, DEATHADDER_V2_PRO_WIRELESS, 126, 65535}

\* No handle yet: nothing is claimed and no call has been made.
ClaimInit ==
    /\ cin \in { [fn |-> "claim", product_id |-> p] : p \in ProductIds }
    /\ ctable = None
    /\ cmsg = None
    /\ cdec = None
    /\ cmsg2 = None
    /\ calt = None
    /\ profile = {}
    /\ device \in {DeviceInit(r) : r \in DeviceRates}
    /\ dev0 = device
    /\ prev = None
    /\ pc = "unclaimed"
    /\ call = None
    /\ op = None
    /\ ret = None
    /\ result = None
    /\ bstep = 0
    /\ locals = EmptyLocals
    /\ wire = << >>
    /\ faults = 0
    /\ GuiAtRest

\* RazerDevice::claim: open()?, detach_and_claim_interface(0)?,
\* get_device_impl(product_id, interface)?, Ok(RazerDeviceClaimed)
Claim ==
    /\ pc = "unclaimed"
    /\ \/ /\ result' = Some(Err("open failed"))
          /\ pc' = "unsupported"
          /\ profile' = profile
       \/ /\ result' = Some(Err("detach_and_claim_interface failed"))
          /\ pc' = "unsupported"
          /\ profile' = profile
       \/ LET device_impl == get_device_impl(cin.product_id)
          IN  IF device_impl.ok
              THEN /\ profile' = device_impl.val
                   /\ result' = None
                   /\ pc' = "idle"
              ELSE /\ profile' = profile
                   /\ result' = Some(device_impl)
                   /\ pc' = "unsupported"
    /\ UNCHANGED << device, dev0, call, op, ret, prev, bstep, locals, wire, faults >>
    /\ UNCHANGED << codec_vars, gui_vars >>

\* The only handle get_device_impl returns overrides every method of the
\* trait, so no default body runs.
ClaimNext ==
    \/ Claim
    \/ CallFeature
    \/ RejectPollingRate
    \/ ControlOut
    \/ Sleep
    \/ ControlIn
    \/ ReturnFeature
    \/ Finish

SpecClaim == ClaimInit /\ [][ClaimNext]_vars

BatchedInit == DriverInit({DeathadderV2ProWireless, WithoutChargingStatus, DpiOnly})

BatchedNext ==
    \/ CallGetBatched
    \/ CallSetBatched
    \/ GetBatchedSleep
    \/ SetBatchedSleep
    \/ Unimplemented
    \/ RejectPollingRate
    \/ ControlOut
    \/ Sleep
    \/ ControlIn
    \/ GetBatchedNext
    \/ SetBatchedNext
    \/ Finish

SpecBatched == BatchedInit /\ [][BatchedNext]_vars

(***************************************************************************)
(* SpecGui: the device page (ruzer/src/device_page.rs).  Refresh and Apply *)
(* each spawn a command that claims the device anew and runs the batched   *)
(* calls on its own handle; a command may be spawned while earlier ones    *)
(* are still running.                                                      *)
(***************************************************************************)
\* Variant: an interface may be claimed while another handle holds it.
ClaimSucceeds_shared(holder) == TRUE

\* detach_and_claim_interface: the interface is owned exclusively, a claim
\* succeeds only while no other handle holds it.
ClaimSucceeds(holder) == holder = None

\* The command in slot t after its current FeatureSet operation returned r:
\* set_batched goes on, stops at an error or is through, and then
\* get_batched starts with its sleep; get_batched binds r and goes on or
\* returns the snapshot.
TaskAfter(task, r) ==
    IF task.phase = "set"
    THEN LET a == set_batched_after(task.settings, task.step, r)
         IN  IF a.done
             THEN [task EXCEPT !.phase = "get", !.pc = "sleep", !.step = 0,
                               !.op = None]
             ELSE [task EXCEPT !.pc = "send", !.step = a.step,
                               !.op = Some(FieldOp(task.settings, a.step))]
    ELSE LET bound == BindLocal(task.locals, Unwrap(task.op).fn, r)
         IN  IF task.step < NumQueries
             THEN [task EXCEPT !.locals = bound, !.pc = "send",
                               !.step = task.step + 1,
                               !.op = Some([fn |-> get_batched_query(task.step + 1),
                                            arg |-> None])]
             ELSE [task EXCEPT !.locals = bound, !.pc = "finished", !.op = None]

\* The pending_changes the page holds when Apply is pressed.
PendingInputs ==
    { NoSettings,
      [dpi |-> Some(Dpi(800, 800)), dpi_stages |-> None,
       polling_rate |-> Some(Extended(8000))] }

\* The slot a newly spawned command takes: the first free one.
FreeSlot(t) ==
    /\ tasks[t].pc = "idle"
    /\ \A u \in 1 .. (t - 1) : tasks[u].pc # "idle"

\* DevicePageMsg::Refresh: update() spawns a command running get_batched.
GuiRefresh(t) ==
    /\ FreeSlot(t)
    /\ tasks' = [tasks EXCEPT ![t] =
                    [IdleTask EXCEPT !.cmd = "Refresh", !.pc = "claim"]]
    /\ UNCHANGED << owner, writer >>
    /\ UNCHANGED << codec_vars, driver_vars, app_vars >>

\* DevicePageMsg::Apply: apply_changes() spawns a command running
\* set_batched(&pending_changes) and then get_batched.
GuiApply(t) ==
    /\ FreeSlot(t)
    /\ \E st \in PendingInputs :
          tasks' = [tasks EXCEPT ![t] =
                       [IdleTask EXCEPT !.cmd = "Apply", !.settings = st,
                                        !.pc = "claim"]]
    /\ UNCHANGED << owner, writer >>
    /\ UNCHANGED << codec_vars, driver_vars, app_vars >>

\* device.claim().unwrap(): the command panics when the claim fails.
TaskClaim(t) ==
    /\ tasks[t].pc = "claim"
    /\ IF ClaimSucceeds(owner)
       THEN /\ owner' = Some(t)
            /\ tasks' = [tasks EXCEPT ![t].pc = "sleep",
                                      ![t].phase = IF tasks[t].cmd = "Apply"
                                                   THEN "set" ELSE "get"]
       ELSE /\ owner' = owner
            /\ tasks' = [tasks EXCEPT ![t] =
                            [IdleTask EXCEPT !.cmd = tasks[t].cmd, !.pc = "panicked"]]
    /\ UNCHANGED writer
    /\ UNCHANGED << codec_vars, driver_vars, app_vars >>

\* The sleep that opens set_batched and get_batched, then the first
\* operation of the call.
TaskSleep(t) ==
    /\ tasks[t].pc = "sleep"
    /\ LET task == tasks[t]
           n == set_batched_next(task.settings, 1)
       IN  tasks' = [tasks EXCEPT ![t] =
              IF task.phase = "set"
              THEN IF n > NumFields
                   THEN [task EXCEPT !.phase = "get"]
                   ELSE [task EXCEPT !.pc = "send", !.step = n,
                                     !.op = Some(FieldOp(task.settings, n))]
              ELSE [task EXCEPT !.pc = "send", !.step = 1,
                                !.op = Some([fn |-> get_batched_query(1),
                                             arg |-> None])]]
    /\ UNCHANGED << owner, writer >>
    /\ UNCHANGED << codec_vars, driver_vars, app_vars >>

\* The operation's request: refused before any transfer, written, or the
\* write fails.
TaskSend(t) ==
    /\ tasks[t].pc = "send"
    /\ LET task == tasks[t]
           o == Unwrap(task.op)
       IN  IF o.fn \notin profile
           THEN /\ tasks' = [tasks EXCEPT ![t] = TaskAfter(task, Err("Unimplemented"))]
                /\ UNCHANGED << device, writer >>
           ELSE IF RejectedBeforeIO(o)
           THEN /\ tasks' = [tasks EXCEPT ![t] = TaskAfter(task, RejectionError(o))]
                /\ UNCHANGED << device, writer >>
           ELSE \/ /\ device' = DeviceWrite(device, FeatureRequest(o))
                   /\ writer' = Some(t)
                   /\ tasks' = [tasks EXCEPT ![t] =
                                   IF o.fn \in GetFeatures
                                   THEN [task EXCEPT !.pc = "wait"]
                                   ELSE TaskAfter(task, Ok(Unit))]
                \/ /\ task.faults < MaxFaults
                   /\ tasks' = [tasks EXCEPT ![t] =
                                   TaskAfter([task EXCEPT !.faults = task.faults + 1],
                                             Err("control_out failed"))]
                   /\ UNCHANGED << device, writer >>
    /\ UNCHANGED owner
    /\ UNCHANGED << profile, dev0, pc, call, op, ret, result, prev, bstep, locals,
                    wire, faults >>
    /\ UNCHANGED << codec_vars, app_vars >>

\* The sleep between the write and the read.
TaskWait(t) ==
    /\ tasks[t].pc = "wait"
    /\ tasks' = [tasks EXCEPT ![t].pc = "recv"]
    /\ UNCHANGED << owner, writer >>
    /\ UNCHANGED << codec_vars, driver_vars, app_vars >>

\* control_in: the device answers the report that was last written to it.
\* own records whether every answer the command read so far was the answer
\* to its own request.
TaskRecv(t) ==
    /\ tasks[t].pc = "recv"
    /\ LET task == tasks[t]
           o == Unwrap(task.op)
           read == [task EXCEPT !.own = task.own /\ writer = Some(t)]
       IN  \/ /\ tasks' = [tasks EXCEPT ![t] =
                              TaskAfter(read, ReceivedBy(o, RAZER_REPORT_SIZE))]
              /\ device' = DeviceAfterRead(device)
           \/ /\ task.faults < MaxFaults
              /\ tasks' = [tasks EXCEPT ![t] =
                              TaskAfter([read EXCEPT !.faults = task.faults + 1],
                                        ReceivedBy(o, ShortReadLen))]
              /\ device' = DeviceAfterRead(device)
           \/ /\ task.faults < MaxFaults
              /\ tasks' = [tasks EXCEPT ![t] =
                              TaskAfter([task EXCEPT !.faults = task.faults + 1],
                                        Err("control_in failed"))]
              /\ device' = device
    /\ UNCHANGED << owner, writer >>
    /\ UNCHANGED << profile, dev0, pc, call, op, ret, result, prev, bstep, locals,
                    wire, faults >>
    /\ UNCHANGED << codec_vars, app_vars >>

\* The command is over: its handle is dropped, which releases the claim it
\* holds; a panicked command held none.
TaskEnd(t) ==
    /\ tasks[t].pc \in {"finished", "panicked"}
    /\ owner' = IF owner = Some(t) THEN None ELSE owner
    /\ tasks' = [tasks EXCEPT ![t] = IdleTask]
    /\ UNCHANGED writer
    /\ UNCHANGED << codec_vars, driver_vars, app_vars >>

GuiInit ==
    /\ profile = DeathadderV2ProWireless
    /\ device = DeviceInit(1)
    /\ dev0 = device
    /\ prev = None
    /\ NoCallInProgress
    /\ CodecAtRest
    /\ GuiAtRest

GuiNext ==
    \E t \in CommandSlots :
        \/ GuiRefresh(t)
        \/ GuiApply(t)
        \/ TaskClaim(t)
        \/ TaskSleep(t)
        \/ TaskSend(t)
        \/ TaskWait(t)
        \/ TaskRecv(t)
        \/ TaskEnd(t)

SpecGui == GuiInit /\ [][GuiNext]_vars

(***************************************************************************)
(* SpecPage: the message handlers of the device page (device_page.rs).     *)
(* A command the page spawned runs on its own and reports a snapshot       *)
(* later; the user may go on editing in between.                           *)
(***************************************************************************)
\* DpiStagesListMsg::Update(dpi_stages): the list is cleared and filled
\* from the table; the listing at position index (from 0) is marked active
\* when dpi_stages.active() as usize == index.
DpiStagesList_Update(dpi_stages) ==
    [n \in 1 .. Len(dpi_stages.stages) |->
        [is_active |-> dpi_stages.active = n - 1,
         dpi |-> dpi_stages.stages[n]]]

\* What the page's emit of DpiStagesListMsg::Update makes of the list.
EmitUpdate(list, info) ==
    IF IsSome(info.dpi_stages)
    THEN DpiStagesList_Update(Unwrap(info.dpi_stages))
    ELSE list

\* Variant: changes entered while the command ran are kept.
update_cmd_keeping(p, command, razer_device_info) ==
    [p EXCEPT !.pending_changes =
                  IF p.pending_changes = command.settings
                  THEN NoSettings ELSE p.pending_changes,
              !.razer_device_info = razer_device_info]

\* update_cmd, DevicePageCommand::Update(razer_device_info): "Reset page
\* and update with new device info".  command is the command that reports.
update_cmd(p, command, razer_device_info) ==
    [p EXCEPT !.pending_changes = NoSettings,
              !.razer_device_info = razer_device_info]

\* DevicePageMsg::Cancel
DevicePage_Cancel(p) == [p EXCEPT !.pending_changes = NoSettings]

\* DevicePageMsg::SetDpi(dpi): a value outside razer_device_info.dpi_range
\* is filtered to None; dpi.into() makes (dpi, dpi).
DevicePage_SetDpi(p, dpi) ==
    LET dpi_range == p.razer_device_info.dpi_range
    IN  [p EXCEPT !.pending_changes.dpi =
            IF IsSome(dpi) /\ dpi_range[1] <= Unwrap(dpi) /\ Unwrap(dpi) <= dpi_range[2]
            THEN Some(Dpi(Unwrap(dpi), Unwrap(dpi)))
            ELSE None]

\* The sequence without its i-th element.
RemoveAt(seq, i) == SubSeq(seq, 1, i - 1) \o SubSeq(seq, i + 1, Len(seq))

\* Snapshots get_batched may return: every query answered; the stage
\* query failed after the DPI was set to 800.
SnapshotSamples ==
    { [dpi |-> Some(Dpi(1600, 1600)), dpi_range |-> get_dpi_range,
       dpi_stages |-> Some(StageTable(1, << <<400, 400>>, <<1600, 1600>> >>)),
       polling_rate |-> Some(1000), battery_level |-> Some(128),
       charging_status |-> Some(TRUE)],
      [dpi |-> Some(Dpi(800, 800)), dpi_range |-> get_dpi_range,
       dpi_stages |-> None,
       polling_rate |-> Some(1000), battery_level |-> Some(128),
       charging_status |-> None] }

\* What the user enters on the page.
DpiEntries == {Some(800), Some(50)}
PollingRateEntries == {Normal(500)}
DpiStagesEntries == {StageTable(1, << <<400, 400>>, <<800, 800>>, <<1600, 1600>> >>)}

\* The device the page is shown for.
UsbDevices == {1}

PageInit ==
    /\ profile = DeathadderV2ProWireless
    /\ device = DeviceInit(1)
    /\ dev0 = device
    /\ prev = None
    /\ NoCallInProgress
    /\ CodecAtRest
    /\ GuiAtRest

\* sender.oneshot_command(..): one more command is running.
Spawn(cmd, settings) ==
    commands' = Append(commands, [cmd |-> cmd, settings |-> settings, result |-> None])

\* DevicePageMsg::Update(usb_device_info): update() stores the device and
\* spawns the command that runs get_batched.
PageUpdate ==
    /\ Len(commands) < MaxCommands
    /\ \E d \in UsbDevices : page' = [page EXCEPT !.usb_device_info = Some(d)]
    /\ Spawn("Refresh", NoSettings)
    /\ hist' = [last |-> "spawn"]
    /\ UNCHANGED << dpi_stages_list, device_list, inbox, root_stack, connected >>
    /\ UNCHANGED << codec_vars, driver_vars, tasks, owner, writer >>

\* DevicePageMsg::Refresh: update() again when a device is stored.
PageRefresh ==
    /\ Len(commands) < MaxCommands
    /\ IF IsSome(page.usb_device_info)
       THEN Spawn("Refresh", NoSettings)
       ELSE commands' = commands
    /\ hist' = [last |-> "spawn"]
    /\ UNCHANGED << page, dpi_stages_list, device_list, inbox, root_stack, connected >>
    /\ UNCHANGED << codec_vars, driver_vars, tasks, owner, writer >>

\* DevicePageMsg::SelectPollingRate(polling_rate)
PageSelectPollingRate ==
    /\ \E r \in PollingRateEntries :
          page' = [page EXCEPT !.pending_changes.polling_rate = Some(r)]
    /\ hist' = [last |-> "edit"]
    /\ UNCHANGED << commands, dpi_stages_list, device_list, inbox, root_stack, connected >>
    /\ UNCHANGED << codec_vars, driver_vars, tasks, owner, writer >>

\* DevicePageMsg::SetDpi(dpi)
PageSetDpi ==
    /\ \E d \in DpiEntries : page' = DevicePage_SetDpi(page, d)
    /\ hist' = [last |-> "edit"]
    /\ UNCHANGED << commands, dpi_stages_list, device_list, inbox, root_stack, connected >>
    /\ UNCHANGED << codec_vars, driver_vars, tasks, owner, writer >>

\* DevicePageMsg::SetDpiStages(dpi_stages), forwarded from the stage list
PageSetDpiStages ==
    /\ \E t \in DpiStagesEntries :
          page' = [page EXCEPT !.pending_changes.dpi_stages = Some(t)]
    /\ hist' = [last |-> "edit"]
    /\ UNCHANGED << commands, dpi_stages_list, device_list, inbox, root_stack, connected >>
    /\ UNCHANGED << codec_vars, driver_vars, tasks, owner, writer >>

\* DevicePageMsg::Apply: apply_changes() clones pending_changes into the
\* command that runs set_batched and then get_batched.
PageApply ==
    /\ Len(commands) < MaxCommands
    /\ IF IsSome(page.usb_device_info)
       THEN Spawn("Apply", page.pending_changes)
       ELSE commands' = commands
    /\ hist' = [last |-> "spawn"]
    /\ UNCHANGED << page, dpi_stages_list, device_list, inbox, root_stack, connected >>
    /\ UNCHANGED << codec_vars, driver_vars, tasks, owner, writer >>

\* DevicePageMsg::Cancel
PageCancel ==
    /\ page' = DevicePage_Cancel(page)
    /\ dpi_stages_list' = EmitUpdate(dpi_stages_list, page.razer_device_info)
    /\ hist' = [last |-> "Cancel",
                dropped_stages |-> IsSome(page.pending_changes.dpi_stages)]
    /\ UNCHANGED << commands, device_list, inbox, root_stack, connected >>
    /\ UNCHANGED << codec_vars, driver_vars, tasks, owner, writer >>

\* The commands that have reported, in the order they finished, stand
\* before the ones that have not run.
Finished(cs) == SelectSeq(cs, LAMBDA c : c.result # None)

\* The body of a command: claim, set_batched(&pending_changes) for Apply
\* (its error is dropped), get_batched.  Its snapshot queues behind the
\* snapshots of the commands that finished before it.
CommandRun ==
    /\ \E i \in 1 .. Len(commands), snapshot \in SnapshotSamples :
          /\ commands[i].result = None
          /\ commands' = Finished(commands)
                            \o << [commands[i] EXCEPT !.result = Some(snapshot)] >>
                            \o SelectSeq(RemoveAt(commands, i), LAMBDA c : c.result = None)
    /\ hist' = [last |-> "run"]
    /\ UNCHANGED << page, dpi_stages_list, device_list, inbox, root_stack, connected >>
    /\ UNCHANGED << codec_vars, driver_vars, tasks, owner, writer >>

\* device.claim().unwrap() of a command whose claim fails, as it does while
\* another command holds the interface: the command panics and reports
\* nothing.
CommandPanic ==
    /\ \E i \in 1 .. Len(commands) :
          /\ commands[i].result = None
          /\ commands' = RemoveAt(commands, i)
    /\ hist' = [last |-> "run"]
    /\ UNCHANGED << page, dpi_stages_list, device_list, inbox, root_stack, connected >>
    /\ UNCHANGED << codec_vars, driver_vars, tasks, owner, writer >>

\* update_cmd: the snapshot of the command that finished first arrives.
CommandOutput ==
    /\ \E i \in {1} :
          /\ commands # << >>
          /\ commands[i].result # None
          /\ page' = update_cmd(page, commands[i], Unwrap(commands[i].result))
          /\ dpi_stages_list' = EmitUpdate(dpi_stages_list, Unwrap(commands[i].result))
          /\ commands' = RemoveAt(commands, i)
          /\ hist' = [last |-> "CommandOutput",
                      dropped_stages |-> IsSome(page.pending_changes.dpi_stages),
                      cmd |-> commands[i].cmd,
                      carried_stages |-> IsSome(commands[i].settings.dpi_stages)]
    /\ UNCHANGED << device_list, inbox, root_stack, connected >>
    /\ UNCHANGED << codec_vars, driver_vars, tasks, owner, writer >>

PageNext ==
    \/ PageUpdate
    \/ PageRefresh
    \/ PageSelectPollingRate
    \/ PageSetDpi
    \/ PageSetDpiStages
    \/ PageApply
    \/ PageCancel
    \/ CommandRun
    \/ CommandPanic
    \/ CommandOutput

SpecPage == PageInit /\ [][PageNext]_vars

(***************************************************************************)
(* SpecStages: the DPI stage list of the device page (dpi_stages.rs).  A   *)
(* listing is [is_active, dpi]; a dpi is the pair << x, y >> of a stage.   *)
(***************************************************************************)
\* Most stages the list is let grow to.
MaxListed == 6

\* The sorted list with one more listing, placed behind the listings whose
\* dpi.x is not greater.
InsertByX(sorted, listing) ==
    LET before == SelectSeq(sorted, LAMBDA l : l.dpi[1] <= listing.dpi[1])
        after == SelectSeq(sorted, LAMBDA l : l.dpi[1] > listing.dpi[1])
    IN  before \o << listing >> \o after

\* sort_dpi_stages_list: new_list.sort_by(|a, b| a.dpi.x.cmp(&b.dpi.x)), a
\* stable sort.
RECURSIVE sort_dpi_stages_list(_)
sort_dpi_stages_list(list) ==
    IF list = << >>
    THEN << >>
    ELSE InsertByX(sort_dpi_stages_list(SubSeq(list, 1, Len(list) - 1)), list[Len(list)])

\* The DPIs of the listings, in list order.
ListedDpis(list) == [i \in 1 .. Len(list) |-> list[i].dpi]

\* get_dpi_stages_from_current: active_stage is the position, counted
\* from 0, of the last listing that is marked active, 0 when none is.
get_dpi_stages_from_current(list) ==
    LET marked == {i \in 1 .. Len(list) : list[i].is_active}
        active_stage == IF marked = {}
                        THEN 0
                        ELSE (CHOOSE i \in marked : \A j \in marked : j <= i) - 1
    IN  DpiStages_new(active_stage % U8, ListedDpis(list))

\* notify_output_dpi_stages: Some(table) when UpdatePending(table) is sent,
\* None when nothing is.
notify_output_dpi_stages(list) ==
    LET new_stages == get_dpi_stages_from_current(list)
    IN  IF new_stages.ok THEN Some(new_stages.val) ELSE None

\* DpiStagesListMsg::Add(dpi), up to the notification
DpiStagesList_Add(list, dpi) ==
    sort_dpi_stages_list(Append(list, [is_active |-> FALSE, dpi |-> dpi]))

\* Stage lists a device returns and stages the user adds.
StageLists ==
    { << << 800, 800 >> >>,
      << << 400, 400 >>, << 800, 800 >> >>,
      << << 1600, 1600 >>, << 800, 800 >> >>,
      << << 400, 400 >>, << 800, 800 >>, << 1600, 1600 >> >> }
DeviceTables ==
    UNION { { StageTable(a, st) : a \in 1 .. Len(st) } : st \in StageLists }
AddedDpis == { << 200, 200 >>, << 600, 600 >>, << 3200, 3200 >> }

\* The table the list was last loaded from, and whether a stage was
\* removed since.
Loaded(h) == IF "table" \in DOMAIN h THEN h.table ELSE None
Removed(h) == IF "removed" \in DOMAIN h THEN h.removed ELSE FALSE

StagesInit == PageInit

\* DpiStagesListMsg::Update(dpi_stages)
StagesUpdate ==
    /\ \E t \in DeviceTables :
          /\ dpi_stages_list' = DpiStagesList_Update(t)
          /\ hist' = [last |-> "Update", table |-> Some(t), removed |-> FALSE]
    /\ UNCHANGED << page, commands, device_list, inbox, root_stack, connected >>
    /\ UNCHANGED << codec_vars, driver_vars, tasks, owner, writer >>

\* DpiStagesListMsg::Add(dpi)
StagesAdd ==
    /\ Len(dpi_stages_list) < MaxListed
    /\ \E dpi \in AddedDpis :
          /\ dpi_stages_list' = DpiStagesList_Add(dpi_stages_list, dpi)
          /\ hist' = [last |-> "Add", table |-> Loaded(hist), removed |-> Removed(hist),
                      listed |-> Len(dpi_stages_list), dpi |-> dpi,
                      emitted |-> notify_output_dpi_stages(dpi_stages_list')]
    /\ UNCHANGED << page, commands, device_list, inbox, root_stack, connected >>
    /\ UNCHANGED << codec_vars, driver_vars, tasks, owner, writer >>

\* DpiStagesListMsg::Remove(index)
StagesRemove ==
    /\ \E index \in 1 .. Len(dpi_stages_list) :
          /\ dpi_stages_list' = RemoveAt(dpi_stages_list, index)
          /\ hist' = [last |-> "Remove", table |-> Loaded(hist), removed |-> TRUE,
                      emitted |-> notify_output_dpi_stages(dpi_stages_list')]
    /\ UNCHANGED << page, commands, device_list, inbox, root_stack, connected >>
    /\ UNCHANGED << codec_vars, driver_vars, tasks, owner, writer >>

StagesNext ==
    \/ StagesUpdate
    \/ StagesAdd
    \/ StagesRemove

SpecStages == StagesInit /\ [][StagesNext]_vars

(***************************************************************************)
(* SpecApp: the App component (ruzer/main.rs) and its device list.  The    *)
(* connected devices are drawn once and stay as they are.                  *)
(***************************************************************************)
\* Most AppMsg messages sent to the App.
MaxMessages == 4

\* USB devices that may be connected: Razer devices and one of another
\* vendor (0x046d).
UsbDeviceSamples ==
    { [id |-> 1, vendor_id |-> RAZER_USB_VENDOR_ID],
      [id |-> 2, vendor_id |-> 1133],
      [id |-> 3, vendor_id |-> RAZER_USB_VENDOR_ID],
      [id |-> 4, vendor_id |-> RAZER_USB_VENDOR_ID] }

\* nusb::list_devices(): the connected devices, one after the other.
RECURSIVE list_devices(_)
list_devices(devices) ==
    IF devices = {}
    THEN << >>
    ELSE LET d == CHOOSE d \in devices : \A e \in devices : d.id <= e.id
         IN  << d >> \o list_devices(devices \ {d})

\* scan_devices: .filter(|device_info| device_info.vendor_id() == RAZER_USB_VENDOR_ID)
scan_devices(devices) ==
    SelectSeq(list_devices(devices), LAMBDA d : d.vendor_id = RAZER_USB_VENDOR_ID)

\* AppMsg::UpdateDeviceList: every scanned device is pushed to the back of
\* the list.
App_UpdateDeviceList(list, devices) == list \o scan_devices(devices)

SwitchPage(app_page) == [msg |-> "SwitchPage", page |-> app_page]
AppPage_Home == [page |-> "Home"]
AppPage_Device(device_info) == [page |-> "Device", device_info |-> device_info]
UpdateDeviceList == [msg |-> "UpdateDeviceList"]

\* The messages sent and the UpdateDeviceList messages handled so far.
Sent(h) == IF "sent" \in DOMAIN h THEN h.sent ELSE 0
Scans(h) == IF "scans" \in DOMAIN h THEN h.scans ELSE 0

\* App::init: sender.input(AppMsg::SwitchPage(AppPage::Home)).
AppInit ==
    /\ profile = DeathadderV2ProWireless
    /\ device = DeviceInit(1)
    /\ dev0 = device
    /\ prev = None
    /\ NoCallInProgress
    /\ CodecAtRest
    /\ tasks = [t \in CommandSlots |-> IdleTask]
    /\ owner = None
    /\ writer = None
    /\ page = DevicePage_init
    /\ commands = << >>
    /\ dpi_stages_list = << >>
    /\ device_list = << >>
    /\ inbox = << SwitchPage(AppPage_Home) >>
    /\ root_stack = "home"
    /\ connected \in SUBSET UsbDeviceSamples
    /\ hist = [last |-> "init", sent |-> 1, scans |-> 0]

\* A device listing is selected: its SelectDevice output is forwarded as
\* AppMsg::SwitchPage(AppPage::Device(device_info)).
SelectDevice ==
    /\ Sent(hist) < MaxMessages
    /\ \E i \in 1 .. Len(device_list) :
          inbox' = Append(inbox, SwitchPage(AppPage_Device(device_list[i])))
    /\ hist' = [hist EXCEPT !.last = "SelectDevice", !.sent = @ + 1]
    /\ UNCHANGED << page, commands, dpi_stages_list, device_list, root_stack, connected >>
    /\ UNCHANGED << codec_vars, driver_vars, tasks, owner, writer >>

\* A message of the App's Input type is sent to it from outside the
\* handlers: a switch to the home page or a request to update the list.
SendInput ==
    /\ Sent(hist) < MaxMessages
    /\ \E message \in {SwitchPage(AppPage_Home), UpdateDeviceList} :
          inbox' = Append(inbox, message)
    /\ hist' = [hist EXCEPT !.last = "SendInput", !.sent = @ + 1]
    /\ UNCHANGED << page, commands, dpi_stages_list, device_list, root_stack, connected >>
    /\ UNCHANGED << codec_vars, driver_vars, tasks, owner, writer >>

\* AppMsg::SwitchPage(AppPage::Device(device_info)): the device page is
\* sent the device and shown.
AppSwitchPageDevice ==
    /\ inbox # << >>
    /\ Head(inbox).msg = "SwitchPage"
    /\ Head(inbox).page.page = "Device"
    /\ inbox' = Tail(inbox)
    /\ root_stack' = "device"
    /\ hist' = [hist EXCEPT !.last = "SwitchPage"]
    /\ UNCHANGED << page, commands, dpi_stages_list, device_list, connected >>
    /\ UNCHANGED << codec_vars, driver_vars, tasks, owner, writer >>

\* AppMsg::SwitchPage(AppPage::Home): sender.input(AppMsg::UpdateDeviceList)
\* and the home page is shown.
AppSwitchPageHome ==
    /\ inbox # << >>
    /\ Head(inbox) = SwitchPage(AppPage_Home)
    /\ inbox' = Append(Tail(inbox), UpdateDeviceList)
    /\ root_stack' = "home"
    /\ hist' = [hist EXCEPT !.last = "SwitchPage"]
    /\ UNCHANGED << page, commands, dpi_stages_list, device_list, connected >>
    /\ UNCHANGED << codec_vars, driver_vars, tasks, owner, writer >>

\* AppMsg::UpdateDeviceList
AppUpdateDeviceList ==
    /\ inbox # << >>
    /\ Head(inbox) = UpdateDeviceList
    /\ inbox' = Tail(inbox)
    /\ device_list' = App_UpdateDeviceList(device_list, connected)
    /\ hist' = [hist EXCEPT !.last = "UpdateDeviceList", !.scans = @ + 1]
    /\ UNCHANGED << page, commands, dpi_stages_list, root_stack, connected >>
    /\ UNCHANGED << codec_vars, driver_vars, tasks, owner, writer >>

AppNext ==
    \/ SelectDevice
    \/ SendInput
    \/ AppSwitchPageDevice
    \/ AppSwitchPageHome
    \/ AppUpdateDeviceList

SpecApp == AppInit /\ [][AppNext]_vars

(***************************************************************************)
(* Claims checked under SpecCodec.                                         *)
(***************************************************************************)
\* A u16 brought into [100, 35000], stated by cases.
InDpiRange(v) == IF v < 100 THEN 100 ELSE IF v > 35000 THEN 35000 ELSE v

IsByte(b) == b \in 0 .. 255

\* C1: the message set_dpi builds for (x, y) carries at arguments [1..2] and
\* [3..4] the big-endian bytes of x and y brought into [100, 35000] and
\* zero at [5] and [6]; the get_dpi decoder reads exactly the clamped pair
\* from those bytes; and set_dpi of that pair builds the same message.
C1_SetDpiClampRoundTrip ==
    cin.fn = "set_dpi" =>
        LET cx == InDpiRange(cin.dpi.x)
            cy == InDpiRange(cin.dpi.y)
        IN  /\ IsSome(cmsg) =>
                LET a == Unwrap(cmsg).arguments
                IN  /\ \A i \in 1 .. 6 : IsByte(a[i])
                    /\ a[1] * 256 + a[2] = cx
                    /\ a[3] * 256 + a[4] = cy
                    /\ a[5] = 0
                    /\ a[6] = 0
            /\ IsSome(cdec) => Unwrap(cdec) = [x |-> cx, y |-> cy]
            /\ IsSome(cmsg2) => cmsg2 = cmsg

\* C1 witness: a pair clamped at both ends went through encode, decode and
\* encode again.
C1_Witness ==
    /\ cin.fn = "set_dpi"
    /\ cin.dpi.x < 100
    /\ cin.dpi.y > 35000
    /\ IsSome(cdec)
    /\ IsSome(cmsg2)

\* C3: for a table accepted by DpiStages::new, the get_dpi_stages decoder
\* applied to the argument bytes of set_dpi_stages returns the same active
\* position and the same ordered list of (x, y) pairs.
C3_DpiStagesRoundTrip ==
    (cin.fn = "dpi_stages" /\ IsSome(cdec)) =>
        /\ Unwrap(ctable).ok
        /\ Unwrap(cdec).active = cin.active
        /\ Unwrap(cdec).stages = cin.stages
        /\ Unwrap(cdec) = Unwrap(ctable).val

\* C3 witness: a five-stage table with DPI values outside [100, 35000] and
\* active position 2 was encoded and decoded.
C3_Witness ==
    /\ cin.fn = "dpi_stages"
    /\ IsSome(cdec)
    /\ cin.active = 2
    /\ Len(cin.stages) = 5
    /\ cin.stages[1] = <<0, 65535>>

\* C4: DpiStages::new fails when the list is empty or longer than 5 or when
\* active is 0 or greater than the length of the list, and otherwise returns
\* a table holding exactly the given active position and list.
C4_DpiStagesNew ==
    (cin.fn = "dpi_stages" /\ IsSome(ctable)) =>
        LET n == Len(cin.stages)
            r == Unwrap(ctable)
            bad == n = 0 \/ n > 5 \/ cin.active = 0 \/ cin.active > n
        IN  /\ bad => ~r.ok
            /\ ~bad => /\ r.ok
                       /\ r.val.active = cin.active
                       /\ r.val.stages = cin.stages

\* C4 witness: five stages with active = 5 were accepted.
C4_Witness ==
    /\ cin.fn = "dpi_stages"
    /\ IsSome(ctable)
    /\ Len(cin.stages) = 5
    /\ cin.active = 5
    /\ Unwrap(ctable).ok

ValidDpiStages(t) ==
    /\ Len(t.stages) >= 1
    /\ Len(t.stages) <= 5
    /\ t.active >= 1
    /\ t.active <= Len(t.stages)

\* C5: every DpiStages value, whether returned by DpiStages::new or by the
\* get_dpi_stages decoder from any response bytes, has 1 to 5 stages and an
\* active position between 1 and its number of stages.
C5_DpiStagesAlwaysValid ==
    /\ (cin.fn = "dpi_stages" /\ IsSome(ctable) /\ Unwrap(ctable).ok)
          => ValidDpiStages(Unwrap(ctable).val)
    /\ (cin.fn \in {"dpi_stages", "stages_response"} /\ IsSome(cdec))
          => ValidDpiStages(Unwrap(cdec))

\* The XOR of the bytes at offsets 2..87, stated bit by bit: bit k of the
\* result is the parity of the number of those bytes that have bit k set.
Pow2(k) == IF k = 0 THEN 1 ELSE IF k = 1 THEN 2 ELSE IF k = 2 THEN 4
           ELSE IF k = 3 THEN 8 ELSE IF k = 4 THEN 16 ELSE IF k = 5 THEN 32
           ELSE IF k = 6 THEN 64 ELSE 128
ParityBit(bytes, k) ==
    Cardinality({ i \in 2 .. 87 : (bytes[i] \div Pow2(k)) % 2 = 1 }) % 2
XorOfBytes2To87(bytes) ==
    ParityBit(bytes, 0) + 2 * ParityBit(bytes, 1) + 4 * ParityBit(bytes, 2)
    + 8 * ParityBit(bytes, 3) + 16 * ParityBit(bytes, 4)
    + 32 * ParityBit(bytes, 5) + 64 * ParityBit(bytes, 6)
    + 128 * ParityBit(bytes, 7)

C18_TransmittedDpiInRange ==
    IsSome(cmsg) =>
        LET a == Unwrap(cmsg).arguments
            InRange(hi, lo) == 100 <= a[hi] * 256 + a[lo] /\ a[hi] * 256 + a[lo] <= 35000
        IN  /\ cin.fn = "set_dpi" => (InRange(1, 2) /\ InRange(3, 4))
            /\ cin.fn = "dpi_stages" =>
                  \A k \in 0 .. (a[2] - 1) :
                      /\ InRange(3 + 7 * k + 1, 3 + 7 * k + 2)
                      /\ InRange(3 + 7 * k + 3, 3 + 7 * k + 4)

\* C24: in the request of set_dpi_stages, the chunk of the k-th stage
\* (k = 1 .. count, at argument 3 + 7 * (k - 1)) starts with the number k.
\* (Violated: the chunk starts with k - 1.)
C24_StageChunksNumberedFromOne ==
    (cin.fn = "dpi_stages" /\ IsSome(cmsg)) =>
        LET a == Unwrap(cmsg).arguments
        IN  \A k \in 1 .. a[2] : a[3 + 7 * (k - 1)] = k

\* Every argument byte of m from index data_size on is zero.
ZeroFromDataSize(m) ==
    \A i \in 0 .. (RAZER_REPORT_ARGUMENT_SIZE - 1) :
        i >= m.data_size => m.arguments[i] = 0

\* C25: in every request, every argument byte at an index greater than or
\* equal to the data size is zero, also when set_dpi_stages is given a
\* table that get_dpi_stages returned.
\* (Violated: a table of more than five stages is written past index 37.)
C25_ZeroBeyondDataSize ==
    /\ IsSome(cmsg) => ZeroFromDataSize(Unwrap(cmsg))
    /\ IsSome(cmsg2) => ZeroFromDataSize(Unwrap(cmsg2))

(***************************************************************************)
(* Claims checked under SpecMessage.                                       *)
(***************************************************************************)
\* C14: set_polling_rate puts 0x08, 0x02, 0x01 at argument 0 for the rates
\* 125, 500, 1000, and get_polling_rate reads each of these bytes back as
\* its rate; every other value of the byte is a decode error, not a rate.
C14_PollingRateBytes ==
    LET byte_of == [r \in {125, 500, 1000} |->
                       IF r = 125 THEN 8 ELSE IF r = 500 THEN 2 ELSE 1]
    IN  /\ cin.fn = "set_polling_rate" =>
              /\ IsSome(cmsg) =>
                    /\ Unwrap(cmsg).arguments[0] = byte_of[cin.rate]
                    /\ Unwrap(cmsg).command_class = 0
                    /\ Unwrap(cmsg).command_id = 5
              /\ IsSome(cdec) => Unwrap(cdec) = Ok(cin.rate)
        /\ (cin.fn = "polling_rate_response" /\ IsSome(cdec)) =>
              LET b == cin.arguments[0]
              IN  IF \E r \in {125, 500, 1000} : byte_of[r] = b
                  THEN \E r \in {125, 500, 1000} :
                          byte_of[r] = b /\ Unwrap(cdec) = Ok(r)
                  ELSE Unwrap(cdec) = Err("Invalid polling rate response")

\* The byte 0x04 is no rate.
C14_Witness ==
    /\ cin.fn = "polling_rate_response"
    /\ cin.arguments[0] = 4
    /\ cdec = Some(Err("Invalid polling rate response"))

\* The payload of an effect, the argument index of its first byte and the
\* data size, as the specification lays them out.
EffectLayout(e) ==
    CASE e.kind \in {"None", "Spectrum"} ->
            [at |-> 3, payload |-> << >>, data_size |-> 6]
      [] e.kind = "Breathing" /\ e.effect.kind = "Random" ->
            [at |-> 3, payload |-> << >>, data_size |-> 6]
      [] e.kind = "Static" ->
            [at |-> 5, payload |-> << 1, e.color.r, e.color.g, e.color.b >>,
             data_size |-> 9]
      [] e.kind = "Breathing" /\ e.effect.kind = "Single" ->
            [at |-> 3,
             payload |-> << 1, 0, 1, e.effect.color.r, e.effect.color.g,
                            e.effect.color.b >>,
             data_size |-> 9]
      [] e.kind = "Breathing" /\ e.effect.kind = "Dual" ->
            [at |-> 3,
             payload |-> << 2, 0, 2, e.effect.color.r, e.effect.color.g,
                            e.effect.color.b, e.effect.color1.r, e.effect.color1.g,
                            e.effect.color1.b >>,
             data_size |-> 12]
      [] e.kind = "Reactive" ->
            [at |-> 4,
             payload |-> << IF e.speed < 1 THEN 1 ELSE IF e.speed > 4 THEN 4 ELSE e.speed,
                            1, e.color.r, e.color.g, e.color.b >>,
             data_size |-> 9]

EffectCode(e) ==
    CASE e.kind = "None" -> 0
      [] e.kind = "Static" -> 1
      [] e.kind = "Breathing" -> 2
      [] e.kind = "Spectrum" -> 3
      [] e.kind = "Reactive" -> 5

\* C17: the lighting message has class 0x0F, id 0x02, the variable store,
\* the LED id and the effect code at arguments 0..2, the effect's payload at
\* its place, the effect's data size, and zero at every other argument; the
\* speed of Reactive is brought into 1..4.
C17_ChromaEncoding ==
    (cin.fn = "chroma_extended_matrix_effect" /\ IsSome(cmsg)) =>
        LET m == Unwrap(cmsg)
            lay == EffectLayout(cin.effect)
        IN  /\ m.command_class = 15
            /\ m.command_id = 2
            /\ m.data_size = lay.data_size
            /\ \A i \in 0 .. 79 :
                  m.arguments[i] =
                      IF i = 0 THEN cin.var_store
                      ELSE IF i = 1 THEN cin.led_id
                      ELSE IF i = 2 THEN EffectCode(cin.effect)
                      ELSE IF lay.at <= i /\ i < lay.at + Len(lay.payload)
                      THEN lay.payload[i - lay.at + 1]
                      ELSE 0

\* Reactive with speed 9 is sent with speed 4.
C17_Witness ==
    /\ cin.fn = "chroma_extended_matrix_effect"
    /\ cin.effect.kind = "Reactive"
    /\ cin.effect.speed = 9
    /\ cin.effect.color = Color(255, 0, 128)
    /\ IsSome(cmsg)
    /\ Unwrap(cmsg).arguments[4] = 4
    /\ Unwrap(cmsg).arguments[6] = 255
    /\ Unwrap(cmsg).data_size = 9

\* The argument indices each command's encoder writes.
WrittenArguments(i) ==
    CASE i.fn \in {"get_polling_rate", "get_battery_level", "get_charging_status"} -> {}
      [] i.fn \in {"get_dpi", "get_dpi_stages", "set_polling_rate"} -> {0}
      [] i.fn = "set_polling_rate_extended" -> {0, 1}
      [] i.fn = "set_dpi" -> 0 .. 6
      [] i.fn = "set_dpi_stages" -> 0 .. (2 + 7 * Len(i.dpi_stages.stages))
      [] i.fn = "chroma_extended_matrix_effect" ->
            (0 .. 2) \cup (EffectLayout(i.effect).at ..
                           (EffectLayout(i.effect).at
                              + Len(EffectLayout(i.effect).payload) - 1))

\* C19: a built message is 90 bytes; its status, remaining packets,
\* protocol type and reserved byte are zero; transaction id, data size,
\* command class, command id and the 80 argument bytes are the builder's,
\* each at its offset; an argument byte the encoder did not write is zero.
C19_BuiltMessageLayout ==
    (cin.fn \in EncoderInputs /\ IsSome(cmsg)) =>
        LET m == Unwrap(cmsg)
            b == Encode(cin)
            bytes == as_bytes(m)
        IN  /\ DOMAIN bytes = 0 .. 89
            /\ m.status = 0 /\ bytes[0] = 0
            /\ m.remaining_packets = 0 /\ bytes[2] = 0 /\ bytes[3] = 0
            /\ m.protocol_type = 0 /\ bytes[4] = 0
            /\ m.reserved = 0 /\ bytes[89] = 0
            /\ m.transaction_id = cin.transaction_id /\ bytes[1] = cin.transaction_id
            /\ m.data_size = b.data_size /\ bytes[5] = b.data_size
            /\ m.command_class = b.command_class /\ bytes[6] = b.command_class
            /\ m.command_id = b.command_id /\ bytes[7] = b.command_id
            /\ DOMAIN m.arguments = 0 .. 79
            /\ \A i \in 0 .. 79 :
                  /\ m.arguments[i] = b.arguments[i]
                  /\ bytes[8 + i] = b.arguments[i]
                  /\ i \notin WrittenArguments(cin) => m.arguments[i] = 0

\* set_dpi_stages with five stages and transaction id 0x1f, built.
C19_Witness ==
    /\ cin.fn = "set_dpi_stages"
    /\ Len(cin.dpi_stages.stages) = 5
    /\ cin.transaction_id = 31
    /\ IsSome(cmsg)
    /\ Unwrap(cmsg).transaction_id = 31
    /\ Unwrap(cmsg).arguments[37] = 0
    /\ Unwrap(cmsg).arguments[79] = 0

\* C20: the bytes of a response are parsed successfully exactly when there
\* are 90 of them; any other length gives "Invalid size of byte response";
\* 90 bytes are taken as they are, whatever the crc and status bytes.
C20_ParseAcceptsExactly90Bytes ==
    (cin.fn = "response_bytes" /\ IsSome(cdec)) =>
        LET r == Unwrap(cdec)
            n == Cardinality(DOMAIN cin.data)
        IN  /\ r.ok <=> n = 90
            /\ ~r.ok => r = Err("Invalid size of byte response")
            /\ r.ok =>
                  /\ as_bytes(r.val) = cin.data
                  /\ r.val.status = cin.data[0]
                  /\ r.val.crc = cin.data[88]

\* 90 bytes with status 3 and a crc that is not the XOR of bytes 2..87:
\* accepted.
C20_Witness ==
    /\ cin.fn = "response_bytes"
    /\ Cardinality(DOMAIN cin.data) = 90
    /\ cin.data[0] = 3
    /\ cin.data[88] # XorRange(cin.data, 2, 87)
    /\ IsSome(cdec)
    /\ Unwrap(cdec).ok
    /\ Unwrap(cdec).val.crc = cin.data[88]

\* 91 bytes: refused.
C20_WitnessTooLong ==
    /\ cin.fn = "response_bytes"
    /\ Cardinality(DOMAIN cin.data) = 91
    /\ IsSome(cdec)
    /\ Unwrap(cdec) = Err("Invalid size of byte response")

\* The command table: command class, command id and data size per request.
CommandTable(f) ==
    CASE f = "get_battery_level" -> << 7, 128, 2 >>
      [] f = "get_charging_status" -> << 7, 132, 2 >>
      [] f = "get_dpi" -> << 4, 133, 7 >>
      [] f = "set_dpi" -> << 4, 5, 7 >>
      [] f = "get_dpi_stages" -> << 4, 134, 38 >>
      [] f = "set_dpi_stages" -> << 4, 6, 38 >>
      [] f = "get_polling_rate" -> << 0, 133, 1 >>
      [] f = "set_polling_rate" -> << 0, 5, 1 >>
      [] f = "set_polling_rate_extended" -> << 0, 64, 2 >>

TableCommands ==
    {"get_battery_level", "get_charging_status", "get_dpi", "set_dpi",
     "get_dpi_stages", "set_dpi_stages", "get_polling_rate", "set_polling_rate",
     "set_polling_rate_extended"}

\* C21: each request builder emits the command class, command id and data
\* size of the command table, and the (class, id) pair of a built request
\* is the pair of no other operation, the lighting effect included.
C21_CommandTable ==
    (cin.fn \in EncoderInputs /\ IsSome(cmsg)) =>
        LET m == Unwrap(cmsg)
        IN  /\ cin.fn \in TableCommands =>
                  << m.command_class, m.command_id, m.data_size >> = CommandTable(cin.fn)
            /\ \A f \in TableCommands \ {cin.fn} :
                  << m.command_class, m.command_id >>
                      # << CommandTable(f)[1], CommandTable(f)[2] >>

\* get_dpi_stages built: class 0x04, id 0x86, data size 0x26.
C21_Witness ==
    /\ cin.fn = "get_dpi_stages"
    /\ IsSome(cmsg)
    /\ Unwrap(cmsg).command_class = 4
    /\ Unwrap(cmsg).command_id = 134
    /\ Unwrap(cmsg).data_size = 38

\* The ASCII bytes of the hexadecimal digits, and the value of each.
HexDigitBytes == (48 .. 57) \cup (65 .. 70) \cup (97 .. 102)

HexValue(byte) ==
    IF byte <= 57 THEN byte - 48 ELSE IF byte <= 70 THEN byte - 55 ELSE byte - 87

\* text is '#' followed by six hexadecimal digits.
IsHexColorText(text) ==
    /\ Len(text) = 7
    /\ text[1] = 35
    /\ \A n \in 2 .. 7 : text[n] \in HexDigitBytes

\* C23: parsing colour text returns the colour for every text of the form
\* #RRGGBB and an error value, never a panic, for every other text.
\* (Violated: shorter texts panic; longer texts, texts without '#' and
\* texts with '+' in place of a digit are parsed.)
C23_ColorTextParsing ==
    (cin.fn = "color_text" /\ IsSome(cdec)) =>
        LET r == Unwrap(cdec)
            t == cin.text
        IN  IF IsHexColorText(t)
            THEN r = Ok(Color(HexValue(t[2]) * 16 + HexValue(t[3]),
                              HexValue(t[4]) * 16 + HexValue(t[5]),
                              HexValue(t[6]) * 16 + HexValue(t[7])))
            ELSE r = Err(Unit)

\* C27: converting the tuple (r, g, b) into a Color gives the Color with
\* red r, green g and blue b.
\* (Violated: green and blue are given the value of r.)
C27_ColorFromTuple ==
    (cin.fn = "color_tuple" /\ IsSome(cdec)) =>
        /\ Unwrap(cdec).r = cin.value[1]
        /\ Unwrap(cdec).g = cin.value[2]
        /\ Unwrap(cdec).b = cin.value[3]

(***************************************************************************)
(* Claims checked under Spec.                                              *)
(***************************************************************************)
\* C2: on the registered device (product 0x007D), a get_dpi that follows a
\* successful set_dpi((x, y)) and succeeds returns (x, y) brought into
\* [100, 35000]: the set request and the get request name the same variable
\* store, so the get reads what the set wrote.
C2_SetDpiThenGetDpi ==
    ( /\ pc = "done"
      /\ profile = DeathadderV2ProWireless
      /\ Unwrap(call).fn = "get_dpi"
      /\ IsSome(prev)
      /\ Unwrap(result).ok )
    => /\ Unwrap(result).val =
              Dpi(InDpiRange(Unwrap(prev).x), InDpiRange(Unwrap(prev).y))
       /\ FeatureRequest(Unwrap(call)).arguments[0] =
              FeatureRequest([fn |-> "set_dpi", arg |-> Unwrap(prev)]).arguments[0]

C2_Witness ==
    /\ pc = "done"
    /\ profile = DeathadderV2ProWireless
    /\ Unwrap(call).fn = "get_dpi"
    /\ prev = Some(Dpi(35001, 99))
    /\ result = Some(Ok(Dpi(35000, 100)))
    /\ device.dpi[VarStoreId_NoStore] = Dpi(35000, 100)
    /\ device.dpi[VarStoreId_VarStore] = Dpi(1600, 1600)

InGetCall ==
    /\ IsSome(call)
    /\ Unwrap(call).fn \in GetFeatures
    /\ Unwrap(call).fn \in profile

\* C12: in a get operation the read is issued only after the write has
\* completed successfully and the sleep after it has elapsed; when the write
\* fails the operation returns that error and issues no read; when the read
\* fails the operation returns that error and no value.
C12_ReadAfterWriteAndDelay ==
    InGetCall =>
        /\ \A i \in 1 .. Len(wire) :
              wire[i].kind = "in" =>
                  /\ i = 3
                  /\ wire[1].kind = "out" /\ wire[1].ok
                  /\ wire[2] = SleepEvent
        /\ pc = "recv" =>
              /\ Len(wire) = 2
              /\ wire[1].kind = "out" /\ wire[1].ok
              /\ wire[2] = SleepEvent
        /\ pc = "done" =>
              /\ Len(wire) >= 1 /\ wire[1].kind = "out"
              /\ ~wire[1].ok =>
                    (Len(wire) = 1 /\ result = Some(Err("control_out failed")))
              /\ (Len(wire) = 3 /\ ~wire[3].ok) =>
                    result = Some(Err("control_in failed"))
              /\ Unwrap(result).ok =>
                    (Len(wire) = 3 /\ wire[3].ok /\ wire[3].len = 90)

\* A get whose write failed: the error is returned and nothing was read.
C12_Witness ==
    /\ InGetCall
    /\ pc = "done"
    /\ Len(wire) = 1
    /\ ~wire[1].ok
    /\ result = Some(Err("control_out failed"))

\* C13: a polling rate of the kind the device does not take is refused
\* without any transfer: set_polling_rate with an Extended rate and
\* set_polling_rate_extended with a Normal rate return their error, send
\* nothing and leave the device as it was; a rate of the right kind goes out
\* in its own kind's command, never in the other's.
C13_WrongKindRefusedWithoutIO ==
    ( /\ pc = "done"
      /\ Unwrap(call).fn \in {"set_polling_rate", "set_polling_rate_extended"}
      /\ Unwrap(call).fn \in profile )
    => LET c == Unwrap(call)
           normal_device == c.fn = "set_polling_rate"
           right_kind == IF normal_device THEN "Normal" ELSE "Extended"
       IN  IF c.arg.kind # right_kind
           THEN /\ wire = << >>
                /\ device = dev0
                /\ result = Some(Err(
                      IF normal_device
                      THEN "Trying to use ExtendedPollingRate on a NormalPollingRate device."
                      ELSE "Trying to use NormalPollingRate on an ExtendedPollingRate device."))
           ELSE /\ Len(wire) = 1
                /\ wire[1].kind = "out"
                /\ wire[1].command_class = 0
                /\ wire[1].command_id = IF normal_device THEN 5 ELSE 64

\* set_polling_rate(Extended(1000)) on the registered device: refused,
\* though 1000 is also a Normal rate.
C13_Witness ==
    /\ pc = "done"
    /\ profile = DeathadderV2ProWireless
    /\ call = Some([fn |-> "set_polling_rate", arg |-> Extended(1000)])
    /\ ~Unwrap(result).ok
    /\ wire = << >>

\* The command class and id of each FeatureSet operation's request.
FeatureCommand(f) ==
    CASE f = "get_dpi" -> << 4, 133 >>
      [] f = "set_dpi" -> << 4, 5 >>
      [] f = "get_dpi_stages" -> << 4, 134 >>
      [] f = "set_dpi_stages" -> << 4, 6 >>
      [] f = "get_polling_rate" -> << 0, 133 >>
      [] f = "set_polling_rate" -> << 0, 5 >>
      [] f = "get_battery_level" -> << 7, 128 >>
      [] f = "get_charging_status" -> << 7, 132 >>
      [] f = "chroma_logo_matrix_effect" -> << 15, 2 >>

\* C15: a FeatureSet operation the device's profile does not list returns
\* the error "Unimplemented" with no transfer and the device untouched; an
\* operation the profile lists (and whose argument it takes) starts with a
\* control-out transfer of its own command.
C15_UnlistedOperationsFailWithoutIO ==
    (pc = "done" /\ Unwrap(call).fn \in Features) =>
        LET c == Unwrap(call)
        IN  IF c.fn \notin profile
            THEN /\ result = Some(Err("Unimplemented"))
                 /\ wire = << >>
                 /\ device = dev0
            ELSE (c.fn = "set_polling_rate" => c.arg.kind = "Normal") =>
                    /\ Len(wire) >= 1
                    /\ wire[1].kind = "out"
                    /\ << wire[1].command_class, wire[1].command_id >>
                            = FeatureCommand(c.fn)
                    /\ result # Some(Err("Unimplemented"))

\* chroma_logo_matrix_effect on a device that lists only the DPI methods.
C15_Witness ==
    /\ pc = "done"
    /\ profile = ExtendedPollingDevice
    /\ Unwrap(call).fn = "chroma_logo_matrix_effect"
    /\ result = Some(Err("Unimplemented"))
    /\ wire = << >>

\* The operations whose request has a variable-store byte at argument 0.
VarStoreOperations ==
    {"get_dpi", "set_dpi", "get_dpi_stages", "set_dpi_stages",
     "chroma_logo_matrix_effect"}

\* The operation in progress has written its request, which the device
\* still holds.
RequestWritten ==
    /\ IsSome(op)
    /\ Unwrap(op).fn \in VarStoreOperations
    /\ Len(wire) >= 1
    /\ wire[1].kind = "out"
    /\ wire[1].ok
    /\ IsSome(device.pending)

\* C22 as stated: all operations of one claimed device that carry a
\* variable-store byte carry one and the same value, the one that the
\* device's set_dpi request carries.
\* (Violated: the DPI operations and the stage operations differ.)
C22_SingleVarStoreDefault ==
    RequestWritten =>
        Unwrap(device.pending).var_store =
            set_dpi_0x3f_request(Dpi(800, 800)).arguments[0]

\* C22 amended: the variable-store byte depends on the operation.  get_dpi
\* and set_dpi carry NoStore (0x00); get_dpi_stages, set_dpi_stages and the
\* logo lighting effect carry VarStore (0x01).
C22_VarStorePerOperation ==
    RequestWritten =>
        Unwrap(device.pending).var_store =
            IF Unwrap(op).fn \in {"get_dpi", "set_dpi"} THEN 0 ELSE 1

\* set_dpi_stages was written with VarStore on a device whose set_dpi
\* writes NoStore.
C22_Witness ==
    /\ RequestWritten
    /\ profile = DeathadderV2ProWireless
    /\ Unwrap(op).fn = "set_dpi_stages"
    /\ Unwrap(device.pending).var_store = 1
    /\ set_dpi_0x3f_request(Dpi(800, 800)).arguments[0] = 0

\* The transfers among the events of the call in progress.
Transfers(kind) == { i \in 1 .. Len(wire) : wire[i].kind = kind }

\* C26: a set operation that succeeded made exactly one write and no read;
\* a get operation that succeeded made exactly one write, then exactly one
\* read; no operation, successful or not, makes a second write or a second
\* read.
C26_OneTransferPerDirection ==
    (IsSome(call) /\ Unwrap(call).fn \in Operations) =>
        /\ Cardinality(Transfers("out")) <= 1
        /\ Cardinality(Transfers("in")) <= 1
        /\ (pc = "done" /\ Unwrap(result).ok) =>
              IF Unwrap(call).fn \in GetFeatures
              THEN /\ Len(wire) = 3
                   /\ wire[1].kind = "out" /\ wire[1].ok
                   /\ wire[2] = SleepEvent
                   /\ wire[3].kind = "in" /\ wire[3].ok
              ELSE /\ Len(wire) = 1
                   /\ wire[1].kind = "out" /\ wire[1].ok

\* The logo lighting effect succeeded with one write.
C26_Witness ==
    /\ pc = "done"
    /\ Unwrap(call).fn = "chroma_logo_matrix_effect"
    /\ result = Some(Ok(Unit))
    /\ Len(wire) = 1
    /\ wire[1].kind = "out"
    /\ wire[1].command_class = 15

\* get_battery_level succeeded with one write and one read.
C26_WitnessGet ==
    /\ pc = "done"
    /\ Unwrap(call).fn = "get_battery_level"
    /\ Unwrap(result).ok
    /\ Len(wire) = 3

(***************************************************************************)
(* Claims checked under SpecBatched.                                       *)
(***************************************************************************)
InGetBatched == IsSome(call) /\ Unwrap(call).fn = "get_batched"
InSetBatched == IsSome(call) /\ Unwrap(call).fn = "set_batched"

\* The queries of a snapshot in the order the specification gives them, with
\* the command class and id of the report each one sends.
QueryOrder ==
    << [fn |-> "get_dpi", command_class |-> 4, command_id |-> 133],
       [fn |-> "get_dpi_stages", command_class |-> 4, command_id |-> 134],
       [fn |-> "get_polling_rate", command_class |-> 0, command_id |-> 133],
       [fn |-> "get_battery_level", command_class |-> 7, command_id |-> 128],
       [fn |-> "get_charging_status", command_class |-> 7, command_id |-> 132] >>

\* The positions in wire of the transfers of one command.
EventsOf(kind, q) ==
    {i \in 1 .. Len(wire) :
        /\ wire[i].kind = kind
        /\ wire[i].command_class = q.command_class
        /\ wire[i].command_id = q.command_id}

\* The device answered query q with a whole report.
Answered(q) ==
    \E i \in EventsOf("in", q) : wire[i].ok /\ wire[i].len = 90

\* What a successful query reports, read off the device.
Reported(q) ==
    CASE q.fn = "get_dpi" -> dev0.dpi[0]
      [] q.fn = "get_dpi_stages" -> dev0.stages[1]
      [] q.fn = "get_polling_rate" ->
            (CASE dev0.rate = 1 -> 1000 [] dev0.rate = 2 -> 500
               [] dev0.rate = 8 -> 125 [] OTHER -> 0)
      [] q.fn = "get_battery_level" -> [num |-> dev0.battery * 100, den |-> 255]
      [] q.fn = "get_charging_status" -> dev0.charging > 0

\* Query q succeeded: the profile implements it, the device answered it and
\* the answer decodes.
Succeeded(q) ==
    /\ q.fn \in profile
    /\ Answered(q)
    /\ q.fn = "get_polling_rate" => dev0.rate \in {1, 2, 8}

SnapshotField(info, q) ==
    CASE q.fn = "get_dpi" -> info.dpi
      [] q.fn = "get_dpi_stages" -> info.dpi_stages
      [] q.fn = "get_polling_rate" -> info.polling_rate
      [] q.fn = "get_battery_level" -> info.battery_level
      [] q.fn = "get_charging_status" -> info.charging_status

\* C7: get_batched always returns a snapshot; each of its five fields is
\* present, with what the device reported, exactly when its own query
\* succeeded, and absent when that query failed (unsupported, transfer
\* error, short or undecodable answer), whatever happened to the others.
C7_SnapshotFieldsIndependent ==
    (pc = "done" /\ InGetBatched) =>
        /\ IsSome(result)
        /\ DOMAIN Unwrap(result) =
              {"dpi", "dpi_range", "dpi_stages", "polling_rate", "battery_level",
               "charging_status"}
        /\ \A k \in 1 .. 5 :
              SnapshotField(Unwrap(result), QueryOrder[k]) =
                  IF Succeeded(QueryOrder[k])
                  THEN Some(Reported(QueryOrder[k]))
                  ELSE None

\* A profile without get_charging_status: charging is absent, the four
\* supported fields are present.
C7_Witness ==
    /\ pc = "done"
    /\ InGetBatched
    /\ profile = WithoutChargingStatus
    /\ Unwrap(result).charging_status = None
    /\ Unwrap(result).dpi = Some(Dpi(1600, 1600))
    /\ IsSome(Unwrap(result).dpi_stages)
    /\ Unwrap(result).polling_rate = Some(1000)
    /\ Unwrap(result).battery_level = Some([num |-> 12800, den |-> 255])

\* The position of a transfer's command in QueryOrder (0: none of them).
QueryIndex(e) ==
    IF \E k \in 1 .. 5 : /\ QueryOrder[k].command_class = e.command_class
                         /\ QueryOrder[k].command_id = e.command_id
    THEN CHOOSE k \in 1 .. 5 : /\ QueryOrder[k].command_class = e.command_class
                               /\ QueryOrder[k].command_id = e.command_id
    ELSE 0

\* C8: get_batched sleeps before anything else; its requests go out in the
\* order dpi, dpi stages, polling rate, battery level, charging status, one
\* per query the profile implements, whether or not earlier queries failed;
\* a request is sent only after the previous query's answer was read (or its
\* request failed); and nothing is transferred for the dpi range.
C8_GetBatchedSequence ==
    InGetBatched =>
        /\ pc # "bsleep" => (Len(wire) >= 1 /\ wire[1] = SleepEvent)
        /\ \A i \in 2 .. Len(wire) :
              /\ wire[i].kind = "out" =>
                    /\ QueryIndex(wire[i]) # 0
                    /\ \/ i = 2
                       \/ wire[i - 1].kind = "in"
                       \/ wire[i - 1].kind = "out" /\ ~wire[i - 1].ok
                    /\ \A j \in 2 .. (i - 1) :
                          wire[j].kind = "out" => QueryIndex(wire[j]) < QueryIndex(wire[i])
              /\ wire[i].kind = "sleep" =>
                    wire[i - 1].kind = "out" /\ wire[i - 1].ok
              /\ wire[i].kind = "in" =>
                    /\ wire[i - 1].kind = "sleep"
                    /\ i >= 3
                    /\ wire[i - 2].kind = "out"
                    /\ QueryIndex(wire[i - 2]) = QueryIndex(wire[i])
        /\ pc = "done" =>
              /\ \A k \in 1 .. 5 :
                    Cardinality(EventsOf("out", QueryOrder[k])) =
                        IF QueryOrder[k].fn \in profile THEN 1 ELSE 0
              /\ \A k \in 1 .. 5 :
                    \A i \in EventsOf("out", QueryOrder[k]) :
                        wire[i].ok => EventsOf("in", QueryOrder[k]) = {i + 2}
              /\ \A f \in DOMAIN locals : IsSome(locals[f])
              /\ Unwrap(result).dpi_range = << 100, 35000 >>

\* All five queries are sent although the first one's request failed.
C8_Witness ==
    /\ pc = "done"
    /\ InGetBatched
    /\ profile = DeathadderV2ProWireless
    /\ Len(wire) = 14
    /\ wire[2].kind = "out" /\ ~wire[2].ok /\ QueryIndex(wire[2]) = 1
    /\ \A k \in 2 .. 5 : Answered(QueryOrder[k])
    /\ Unwrap(result).dpi = None
    /\ IsSome(Unwrap(result).charging_status)

\* The fields of a DeviceSettings in the order the specification gives
\* them, with the command class and id of the report each one's set sends.
FieldOrder ==
    << [fn |-> "set_dpi", command_class |-> 4, command_id |-> 5],
       [fn |-> "set_dpi_stages", command_class |-> 4, command_id |-> 6],
       [fn |-> "set_polling_rate", command_class |-> 0, command_id |-> 5] >>

Settings == Unwrap(call).arg

Present(k) ==
    CASE k = 1 -> Settings.dpi # None
      [] k = 2 -> Settings.dpi_stages # None
      [] k = 3 -> Settings.polling_rate # None

FieldIndex(e) ==
    IF \E k \in 1 .. 3 : /\ FieldOrder[k].command_class = e.command_class
                         /\ FieldOrder[k].command_id = e.command_id
    THEN CHOOSE k \in 1 .. 3 : /\ FieldOrder[k].command_class = e.command_class
                               /\ FieldOrder[k].command_id = e.command_id
    ELSE 0

\* C9: set_batched sleeps before anything else; after the sleep it only
\* sends set requests, each for a field that is present, in the order dpi,
\* dpi stages, polling rate; when it returns success every present field
\* was sent exactly once; with no field present it sends nothing and
\* returns success.
C9_SetBatchedSequence ==
    InSetBatched =>
        /\ pc # "bsleep" => (Len(wire) >= 1 /\ wire[1] = SleepEvent)
        /\ \A i \in 2 .. Len(wire) :
              /\ wire[i].kind = "out"
              /\ FieldIndex(wire[i]) # 0
              /\ Present(FieldIndex(wire[i]))
              /\ \A j \in 2 .. (i - 1) : FieldIndex(wire[j]) < FieldIndex(wire[i])
        /\ (pc = "done" /\ Unwrap(result).ok) =>
              \A k \in 1 .. 3 :
                  Present(k) => \E i \in EventsOf("out", FieldOrder[k]) : wire[i].ok
        /\ (pc = "done" /\ \A k \in 1 .. 3 : ~Present(k)) =>
              (wire = << SleepEvent >> /\ result = Some(Ok(Unit)))

\* Only dpi and polling rate are present: two requests, dpi first.
C9_Witness ==
    /\ pc = "done"
    /\ InSetBatched
    /\ Present(1) /\ ~Present(2) /\ Present(3)
    /\ result = Some(Ok(Unit))
    /\ Len(wire) = 3
    /\ FieldIndex(wire[2]) = 1
    /\ FieldIndex(wire[3]) = 3

\* The write of field k cannot succeed or did not: the profile lacks it, it
\* is refused before any transfer, or its request failed.
WriteFailed(k) ==
    /\ Present(k)
    /\ \/ FieldOrder[k].fn \notin profile
       \/ k = 3 /\ Unwrap(Settings.polling_rate).kind = "Extended"
       \/ \E i \in EventsOf("out", FieldOrder[k]) : ~wire[i].ok

WriteError(k) ==
    IF FieldOrder[k].fn \notin profile
    THEN Err("Unimplemented")
    ELSE IF k = 3 /\ Unwrap(Settings.polling_rate).kind = "Extended"
    THEN Err("Trying to use ExtendedPollingRate on a NormalPollingRate device.")
    ELSE Err("control_out failed")

\* What the device keeps for field k after the write of the settings' value
\* (applied) or as it was when set_batched was called.
DeviceKeeps(k, applied) ==
    CASE k = 1 ->
            device.dpi[0] =
                IF applied
                THEN Dpi(InDpiRange(Unwrap(Settings.dpi).x),
                         InDpiRange(Unwrap(Settings.dpi).y))
                ELSE dev0.dpi[0]
      [] k = 2 ->
            device.stages[1] =
                IF applied THEN Unwrap(Settings.dpi_stages) ELSE dev0.stages[1]
      [] k = 3 ->
            device.rate =
                IF applied
                THEN (CASE Unwrap(Settings.polling_rate).rate = 1000 -> 1
                        [] Unwrap(Settings.polling_rate).rate = 500 -> 2
                        [] Unwrap(Settings.polling_rate).rate = 125 -> 8)
                ELSE dev0.rate

\* C10: when a write of set_batched fails, set_batched returns that write's
\* error; the failed write is the last thing it did: no later field is
\* written and nothing is sent to undo the earlier writes, which the device
\* keeps; the fields from the failed one on are as they were.
C10_FirstFailureAborts ==
    InSetBatched =>
        /\ \A i \in 1 .. (Len(wire) - 1) : wire[i].ok
        /\ pc = "done" =>
              IF \E k \in 1 .. 3 : WriteFailed(k)
              THEN LET f == CHOOSE k \in 1 .. 3 :
                                WriteFailed(k) /\ \A j \in 1 .. (k - 1) : ~WriteFailed(j)
                   IN  /\ result = Some(WriteError(f))
                       /\ \A j \in 1 .. (f - 1) :
                             /\ Present(j) =>
                                   Cardinality(EventsOf("out", FieldOrder[j])) = 1
                             /\ DeviceKeeps(j, Present(j))
                       /\ \A j \in f .. 3 : DeviceKeeps(j, FALSE)
                       /\ \A j \in (f + 1) .. 3 : EventsOf("out", FieldOrder[j]) = {}
                       /\ Len(wire) = 1 + Cardinality({j \in 1 .. (f - 1) : Present(j)})
                                        + Cardinality(EventsOf("out", FieldOrder[f]))
              ELSE /\ result = Some(Ok(Unit))
                   /\ \A j \in 1 .. 3 : DeviceKeeps(j, Present(j))

\* dpi was written, the request for the stages failed, the polling rate
\* was never sent: the device keeps the new dpi and its old stages and rate.
C10_Witness ==
    /\ pc = "done"
    /\ InSetBatched
    /\ Present(1) /\ Present(2) /\ Present(3)
    /\ result = Some(Err("control_out failed"))
    /\ Len(wire) = 3
    /\ wire[2].ok /\ FieldIndex(wire[2]) = 1
    /\ ~wire[3].ok /\ FieldIndex(wire[3]) = 2
    /\ device.dpi[0] = Dpi(800, 800)
    /\ device.dpi[0] # dev0.dpi[0]
    /\ device.stages = dev0.stages
    /\ device.rate = dev0.rate

(***************************************************************************)
(* Claims checked under SpecClaim.                                         *)
(***************************************************************************)
\* The errors the USB library may return from open and from
\* detach_and_claim_interface, whatever the product id.
UsbErrors == {Err("open failed"), Err("detach_and_claim_interface failed")}

C16_WitnessRegistered ==
    /\ cin.fn = "claim"
    /\ cin.product_id = 125
    /\ pc = "idle"
    /\ call = None
    /\ profile = DeathadderV2ProWireless

(***************************************************************************)
(* Claims checked under SpecGui.                                           *)
(***************************************************************************)
InFlight(t) == tasks[t].pc \in {"wait", "recv"}

C28_SnapshotResetsPendingChanges ==
    [][ /\ hist'.last = "CommandOutput" =>
              /\ page'.pending_changes = NoSettings
              /\ \E i \in 1 .. Len(commands) :
                    /\ commands[i].result # None
                    /\ page'.razer_device_info = Unwrap(commands[i].result)
                    /\ commands' = RemoveAt(commands, i)
              /\ page'.usb_device_info = page.usb_device_info
        /\ hist'.last = "Cancel" =>
              /\ page'.pending_changes = NoSettings
              /\ page'.razer_device_info = page.razer_device_info
              /\ commands' = commands
      ]_vars

\* The snapshot of an Apply command arrived; the user had entered stages
\* after the command was started, and they are gone: the page holds no
\* pending change and no command is left to carry them.
C28_Witness ==
    /\ hist.last = "CommandOutput"
    /\ hist.cmd = "Apply"
    /\ hist.dropped_stages
    /\ ~hist.carried_stages
    /\ page.pending_changes = NoSettings
    /\ commands = << >>
    /\ page.razer_device_info \in SnapshotSamples

\* Cancel dropped pending stages.
C28_WitnessCancel ==
    /\ hist.last = "Cancel"
    /\ hist.dropped_stages
    /\ page.pending_changes = NoSettings


(***************************************************************************)
(* Claims checked under SpecStages.                                        *)
(***************************************************************************)
\* C29: after the list was loaded from a device table t and with no stage
\* removed since, adding a stage while fewer than 5 are listed emits
\* UpdatePending(table): table's stages are the listed stages in ascending
\* DPI order, the new one among them, and table's active position (from 1)
\* designates the stage that t's active position designates.
C29_AddKeepsActiveStage ==
    ( /\ hist.last = "Add"
      /\ IsSome(hist.table)
      /\ ~hist.removed
      /\ hist.listed < RAZER_MOUSE_MAX_DPI_STAGES )
    => /\ IsSome(hist.emitted)
       /\ LET table == Unwrap(hist.emitted)
              t == Unwrap(hist.table)
          IN  /\ table.stages = ListedDpis(dpi_stages_list)
              /\ \A i \in 1 .. Len(table.stages) - 1 :
                    table.stages[i][1] <= table.stages[i + 1][1]
              /\ \E i \in 1 .. Len(table.stages) : table.stages[i] = hist.dpi
              /\ table.stages[table.active] = t.stages[t.active]


(***************************************************************************)
(* Claims checked under SpecApp.                                           *)
(***************************************************************************)
\* The entries of the device list that show device d.
Entries(d) == {i \in 1 .. Len(device_list) : device_list[i] = d}

=============================================================================
